---- MODULE Spec2Model ----
(***************************************************************************)
(* A model of the jobly REST API: the Express application (app.js), the    *)
(* ensureAdmin middleware, the routers for /companies, /jobs, /users and   *)
(* /auth, and the helper sqlForPartialUpdate.                              *)
(*                                                                         *)
(* What the source tree holds is modelled from it.  The files the routers  *)
(* require but the tree does not hold (expressError, the models, the JSON  *)
(* schemas, the JWT helpers and the rest of middleware/auth) are modelled  *)
(* from the specification and from the routes' own documentation.          *)
(*                                                                         *)
(* Requests are served concurrently: a handler returns to the event loop   *)
(* at its await, and other requests arrive, reach the database and are     *)
(* answered before it resumes.  A model function is one step of the        *)
(* database.                                                               *)
(***************************************************************************)
EXTENDS Integers, Sequences, FiniteSets, TLC

(***************************************************************************)
(* Bounds of the model.                                                    *)
(***************************************************************************)
\* Largest number of keys of a dataToUpdate given to sqlForPartialUpdate.
MaxKeys == 2
\* Largest number of requests the application receives in one behaviour.
MaxRequests == 2

(***************************************************************************)
(* JavaScript values.  A message is either one string or an array of       *)
(* strings (BadRequestError is thrown with both); the tag keeps them       *)
(* apart.                                                                  *)
(***************************************************************************)
Str(s) == [isList |-> FALSE, items |-> <<s>>]
StrList(ss) == [isList |-> TRUE, items |-> ss]

(***************************************************************************)
(* JavaScript numbers, as far as the program meets them: NaN, the two      *)
(* infinities, and the finite decimals m / 10^e.  Equal numbers are equal  *)
(* records: m is not divisible by 10, except that an integer below 10^9 in *)
(* magnitude has e = 0 and m its value.  The decimals are those Numbers    *)
(* whose shortest decimal has at most nine digits.  Literals of more than  *)
(* nine significant digits, exponents of more than nine digits, and the    *)
(* difference between 0 and -0, are outside the model.                     *)
(***************************************************************************)
NaN == [nan |-> TRUE, inf |-> FALSE, m |-> 0, e |-> 0]
Infinity(sign) == [nan |-> FALSE, inf |-> TRUE, m |-> sign, e |-> 0]
RECURSIVE Decimal(_, _)
Decimal(m, e) ==
  IF m = 0 THEN [nan |-> FALSE, inf |-> FALSE, m |-> 0, e |-> 0]
  ELSE IF (m % 10) = 0 THEN Decimal(m \div 10, e - 1)
  ELSE IF e < 0 /\ e >= -8 /\ m < 10^(9 + e) /\ m > 0 - 10^(9 + e)
    THEN [nan |-> FALSE, inf |-> FALSE, m |-> m * 10^(0 - e), e |-> 0]
  ELSE [nan |-> FALSE, inf |-> FALSE, m |-> m, e |-> e]
Integer(n) == Decimal(n, 0)
IsFinite(n) == ~n.nan /\ ~n.inf
IsInteger(n) == IsFinite(n) /\ n.e <= 0
\* What || and the conditional operator take for false among the numbers.
IsFalsy(n) == n.nan \/ (IsFinite(n) /\ n.m = 0)

\* String.prototype.substring, with positions counted from 1 and both ends
\* included: positions outside the string are left out.
Sub(s, a, b) ==
  IF a > b \/ b < 1 \/ a > Len(s) THEN ""
  ELSE SubSeq(s, IF a < 1 THEN 1 ELSE a, IF b > Len(s) THEN Len(s) ELSE b)
Char(s, i) == Sub(s, i, i)
\* A string here holds the characters of a JavaScript string as they are,
\* but for two: a backslash is written twice, and a character beyond U+007F
\* may be written \uXXXX, its UTF-16 code unit in four hex digits, as it must
\* be when a string here cannot hold it (U+2000 to U+200A, U+2028, U+2029,
\* U+202F, U+205F and U+3000 are such).  In the notation of this module the
\* string of U+2003 and the digit 5 is "\\u20035", of seven characters.
\* CharLen is the number of characters of s that write its first one.
CharLen(s) ==
  IF Char(s, 1) # "\\" THEN 1 ELSE IF Char(s, 2) = "u" THEN 6 ELSE 2
\* The code points of the white space that is written as it is.
CodePoint ==
  [c \in {" ", "\t", "\n", "\r", "\f", "", " ", "﻿", " "} |->
     CASE c = " " -> 32 [] c = "\t" -> 9 [] c = "\n" -> 10 [] c = "\r" -> 13
       [] c = "\f" -> 12 [] c = "" -> 11 [] c = " " -> 160
       [] c = "﻿" -> 65279 [] c = " " -> 5760]
\* StrWhiteSpaceChar, as code points: TAB, LF, VT, FF, CR, space, NBSP,
\* U+1680, U+2000 to U+200A, U+2028, U+2029, U+202F, U+205F, U+3000 and
\* ZWNBSP (U+FEFF).
WhiteSpace ==
  {9, 10, 11, 12, 13, 32, 160, 5760, 8232, 8233, 8239, 8287, 12288, 65279}
    \cup (8192..8202)
\* The characters that stand for the digit d - 1.
DigitChars ==
  << {"0"}, {"1"}, {"2"}, {"3"}, {"4"}, {"5"}, {"6"}, {"7"}, {"8"}, {"9"},
     {"a", "A"}, {"b", "B"}, {"c", "C"}, {"d", "D"}, {"e", "E"}, {"f", "F"} >>
\* s is made of digits of the radix (it may be empty), and their value.
AllDigits(s, radix) ==
  \A i \in 1..Len(s) : \E d \in 1..radix : Char(s, i) \in DigitChars[d]
RECURSIVE DigitsValue(_, _)
DigitsValue(s, radix) ==
  IF Len(s) = 0 THEN 0
  ELSE DigitsValue(Sub(s, 1, Len(s) - 1), radix) * radix
         + (CHOOSE d \in 1..16 : Char(s, Len(s)) \in DigitChars[d]) - 1
\* The character c, as written, is one of the code points.
OneOf(c, codes) ==
  \/ c \in DOMAIN CodePoint /\ CodePoint[c] \in codes
  \/ /\ Len(c) = 6
     /\ AllDigits(Sub(c, 3, 6), 16)
     /\ DigitsValue(Sub(c, 3, 6), 16) \in codes
\* The position from i on where a character of the code points is written;
\* Len(s) + 1 if there is none.
RECURSIVE Find(_, _, _)
Find(s, i, codes) ==
  IF i > Len(s) \/ OneOf(Sub(s, i, i + CharLen(Sub(s, i, Len(s))) - 1), codes)
    THEN i
    ELSE Find(s, i + CharLen(Sub(s, i, Len(s))), codes)
\* The position from i on where the last character of s is written.
RECURSIVE Last(_, _)
Last(s, i) ==
  IF i + CharLen(Sub(s, i, Len(s))) > Len(s) THEN i
  ELSE Last(s, i + CharLen(Sub(s, i, Len(s))))
\* s without the characters of ws at its start, at its end, at both.
RECURSIVE TrimStart(_, _)
TrimStart(s, ws) ==
  IF Len(s) > 0 /\ OneOf(Sub(s, 1, CharLen(s)), ws)
    THEN TrimStart(Sub(s, CharLen(s) + 1, Len(s)), ws) ELSE s
RECURSIVE TrimEnd(_, _)
TrimEnd(s, ws) ==
  IF Len(s) > 0 /\ OneOf(Sub(s, Last(s, 1), Len(s)), ws)
    THEN TrimEnd(Sub(s, 1, Last(s, 1) - 1), ws) ELSE s
Trim(s, ws) == TrimEnd(TrimStart(s, ws), ws)
\* The first position of s that holds one of chars; Len(s) + 1 if none does.
IndexOf(s, chars) ==
  CHOOSE i \in 1..(Len(s) + 1) :
    /\ i <= Len(s) => Char(s, i) \in chars
    /\ \A j \in 1..(i - 1) : Char(s, j) \notin chars
WithSign(negative, n) ==
  IF n.nan \/ ~negative THEN n
  ELSE [nan |-> FALSE, inf |-> n.inf, m |-> 0 - n.m, e |-> n.e]

\* RoundMVResult below the least normal Number, where the Numbers are the
\* multiples of 2^-1074.  The unit of the decimals met there is 10^-324:
\* SubnormalsPerUnit holds the first thirty decimals of 10^-324 / 2^-1074
\* (0.2024...), UnitsPerSubnormal those of 2^-1074 / 10^-324 after its
\* integer part 4 (4.9406...).
SubnormalsPerUnit ==
  << 2, 0, 2, 4, 0, 2, 2, 5, 3, 3, 0, 7, 3, 1, 0,
     6, 1, 8, 3, 5, 2, 4, 9, 5, 3, 4, 6, 7, 1, 8 >>
UnitsPerSubnormal ==
  << 9, 4, 0, 6, 5, 6, 4, 5, 8, 4, 1, 2, 4, 6, 5,
     4, 4, 1, 7, 6, 5, 6, 8, 7, 9, 2, 8, 6, 8, 2 >>
\* The digit of 10^(-i - 1) of (10 * hi + lo) * 0.ds, with what the digits
\* to its right carry into it: long multiplication, right to left.
RECURSIVE Column(_, _, _, _)
Column(hi, lo, ds, i) ==
  IF i > Len(ds) THEN 0
  ELSE hi * (IF i < Len(ds) THEN ds[i + 1] ELSE 0) + lo * ds[i]
         + (Column(hi, lo, ds, i + 1) \div 10)
\* a * (whole + 0.ds) / 10^t rounded to the nearest integer: the integer part
\* of the product, and a carry of its first decimal and half of 10^t.  For a
\* below 2^31 the product is farther from every half than the thirty
\* decimals are from the factor.
Scaled(a, whole, ds, t) ==
  (a * whole + (a \div 10) * ds[1]
     + (Column(a \div 10, a % 10, ds, 1) \div 10)
     + (((Column(a \div 10, a % 10, ds, 1) % 10) + 5 * 10^t) \div 10))
    \div 10^t
\* The k-th multiple of 2^-1074 rounded to a multiple of 10^(t - 324).
Candidate(k, t) == Scaled(k, 4, UnitsPerSubnormal, t) * 10^t
\* The decimal of fewest digits that is nearer to the k-th multiple of
\* 2^-1074 than to any other Number (Number::toString finds the same), in
\* units of 10^-324: digits are dropped while the decimal still rounds to k.
RECURSIVE Shortest(_, _)
Shortest(k, t) ==
  IF t > 0 /\ (\/ Candidate(k, t) = 0
               \/ Scaled(Candidate(k, t), 0, SubnormalsPerUnit, 0) # k)
    THEN Shortest(k, t - 1)
    ELSE Candidate(k, t)
\* RoundMVResult: the Number nearest to the decimal d of a literal, whose
\* first digit counts 10^(Len(ToString(d.m)) - d.e - 1).  From 2^1024 - 2^970 (1.797...e308)
\* on it is Infinity, up to 2^-1075 (2.470...e-324) it is 0; a decimal of
\* nine digits that is a multiple of 10^-323 is the shortest decimal of its
\* nearest Number, and stands for it.
RoundMV(d) ==
  IF d.m = 0 THEN d
  ELSE IF \/ Len(ToString(d.m)) - d.e > 309
          \/ /\ Len(ToString(d.m)) - d.e = 309
             /\ d.m * 10^(9 - Len(ToString(d.m))) > 179769313
    THEN Infinity(1)
  ELSE IF \/ Len(ToString(d.m)) - d.e < -323
          \/ /\ Len(ToString(d.m)) - d.e = -323
             /\ d.m * 10^(9 - Len(ToString(d.m))) <= 247032822
    THEN Integer(0)
  ELSE IF d.e <= 323 THEN d
  ELSE Decimal(Shortest(Scaled(d.m, 0, SubnormalsPerUnit, d.e - 324), 8), 324)
\* The number of "0" at the end of s.
TrailingZeros(s) ==
  CHOOSE z \in 0..Len(s) :
    /\ z < Len(s) => Char(s, Len(s) - z) # "0"
    /\ \A j \in 1..z : Char(s, Len(s) - j + 1) = "0"
\* The MV of digits / 10^e, zeros of the digits being zeros at their end.
Significand(digits, zeros, e) ==
  RoundMV(Decimal(DigitsValue(Sub(digits, 1, Len(digits) - zeros), 10),
                  e - zeros))
\* StrUnsignedDecimalLiteral: digits, with or without a point and digits
\* after it, and an exponent.
DecimalLiteral(int, frac, expSign, expDigits) ==
  IF /\ AllDigits(int \o frac \o expDigits, 10)
     /\ Len(int \o frac) >= 1
     /\ Len(expDigits) >= 1
    THEN Significand(int \o frac, TrailingZeros(int \o frac),
                     Len(frac) - expSign * DigitsValue(expDigits, 10))
    ELSE NaN
StrDecimal(mant, expo) ==
  DecimalLiteral(Sub(mant, 1, IndexOf(mant, {"."}) - 1),
                 Sub(mant, IndexOf(mant, {"."}) + 1, Len(mant)),
                 IF Char(expo, 1) = "-" THEN -1 ELSE 1,
                 IF Char(expo, 1) \in {"+", "-"}
                   THEN Sub(expo, 2, Len(expo)) ELSE expo)
\* The literal is cut at its exponent mark.
UnsignedDecimal(s) ==
  IF s = "Infinity" THEN Infinity(1)
  ELSE StrDecimal(Sub(s, 1, IndexOf(s, {"e", "E"}) - 1),
                  IF IndexOf(s, {"e", "E"}) > Len(s) THEN "0"
                  ELSE Sub(s, IndexOf(s, {"e", "E"}) + 1, Len(s)))

\* 0x, 0o and 0b literals: digits of the radix, and no sign.
NonDecimal(digits, radix) ==
  IF Len(digits) >= 1 /\ AllDigits(digits, radix)
    THEN Integer(DigitsValue(digits, radix)) ELSE NaN
\* StringNumericLiteral, the white space around it taken off.
StrNumericLiteral(t) ==
  IF Len(t) = 0 THEN Integer(0)
  ELSE IF Sub(t, 1, 2) \in {"0x", "0X", "0o", "0O", "0b", "0B"}
    THEN NonDecimal(Sub(t, 3, Len(t)),
                    CASE Char(t, 2) \in {"x", "X"} -> 16
                      [] Char(t, 2) \in {"o", "O"} -> 8
                      [] OTHER -> 2)
  ELSE WithSign(Char(t, 1) = "-",
                UnsignedDecimal(IF Char(t, 1) \in {"+", "-"}
                                  THEN Sub(t, 2, Len(t)) ELSE t))
\* Unary plus on a string (StringToNumber): white space is trimmed; the
\* empty string is 0; everything that is no numeric literal is NaN.
ToNumber(s) == StrNumericLiteral(Trim(s, WhiteSpace))

\* Number::toString, radix 10: the digits s of m, k of them, and the place p
\* of the point after the first p digits.
NumberText(n) ==
  IF n.nan THEN "NaN"
  ELSE IF n.inf THEN (IF n.m < 0 THEN "-Infinity" ELSE "Infinity")
  ELSE LET sign == IF n.m < 0 THEN "-" ELSE ""
           a == IF n.m < 0 THEN 0 - n.m ELSE n.m
           s == ToString(a)
           k == Len(s)
           p == k - n.e
           zeros[i \in 0..21] == IF i = 0 THEN "" ELSE zeros[i - 1] \o "0"
           fraction == IF k > 1 THEN "." \o Sub(s, 2, k) ELSE ""
       IN IF a = 0 THEN "0"
          ELSE IF p >= k /\ p <= 21 THEN sign \o s \o zeros[p - k]
          ELSE IF p > 0 /\ p <= 21
            THEN sign \o Sub(s, 1, p) \o "." \o Sub(s, p + 1, k)
          ELSE IF p > -6 /\ p <= 0 THEN sign \o "0." \o zeros[0 - p] \o s
          ELSE IF p > 0
            THEN sign \o Char(s, 1) \o fraction \o "e+" \o ToString(p - 1)
          ELSE sign \o Char(s, 1) \o fraction \o "e-" \o ToString(1 - p)

\* The database reading a parameter for a column of type integer: white
\* space around it is skipped, a sign is allowed, the rest is decimal
\* digits.  NaN stands for a text the database rejects.
PgSpace == {9, 10, 11, 12, 13, 32}
PgInteger(t) ==
  LET digits == IF Char(t, 1) \in {"+", "-"} THEN Sub(t, 2, Len(t)) ELSE t
  IN IF Len(digits) >= 1 /\ AllDigits(digits, 10)
       THEN WithSign(Char(t, 1) = "-",
                     [nan |-> FALSE, inf |-> FALSE,
                      m |-> DigitsValue(digits, 10), e |-> 0])
       ELSE NaN
IntegerInput(text) == PgInteger(Trim(text, PgSpace))

(***************************************************************************)
(* expressError: the error classes the routes and helpers throw.           *)
(***************************************************************************)
ExpressError(name, message, status) ==
  [name |-> name, message |-> message, status |-> status]
NotFoundError(message) == ExpressError("NotFoundError", message, 404)
UnauthorizedError(message) == ExpressError("UnauthorizedError", message, 401)
BadRequestError(message) == ExpressError("BadRequestError", message, 400)
\* An Error that is no ExpressError: it has no status property (0 stands for
\* undefined, which is falsy like 0).
PlainError(message) == [name |-> "Error", message |-> message, status |-> 0]

(***************************************************************************)
(* helpers/sql.js                                                          *)
(***************************************************************************)
\* An object is a sequence of [key, val] entries with distinct keys, in the
\* order Object.keys and Object.values enumerate them.
ObjectKeys(obj) == [i \in 1..Len(obj) |-> obj[i].key]
ObjectValues(obj) == [i \in 1..Len(obj) |-> obj[i].val]

\* What a property read finds on an object that has no such key of its own:
\* the members of Object.prototype, given here by the text a template
\* literal makes of them.  Every other name reads undefined.
ObjectPrototype ==
  [name \in {"constructor", "toString", "toLocaleString", "valueOf",
             "hasOwnProperty", "isPrototypeOf", "propertyIsEnumerable",
             "__defineGetter__", "__defineSetter__", "__lookupGetter__",
             "__lookupSetter__", "__proto__"} |->
     CASE name = "constructor" -> "function Object() { [native code] }"
       [] name = "__proto__" -> "[object Object]"
       [] OTHER -> "function " \o name \o "() { [native code] }"]

\* jsToSql[colName] || colName : the mapped name unless the read gives
\* undefined or a falsy value (the empty string).  The read finds the keys
\* of jsToSql and, for any other name, what Object.prototype holds.
ColumnName(jsToSql, colName) ==
  IF colName \in DOMAIN jsToSql
    THEN IF jsToSql[colName] # "" THEN jsToSql[colName] ELSE colName
    ELSE IF colName \in DOMAIN ObjectPrototype THEN ObjectPrototype[colName]
    ELSE colName

\* `"${...}"=$${idx + 1}` with idx the 0-based index of the key.
Assignment(jsToSql, colName, idx) ==
  "\"" \o ColumnName(jsToSql, colName) \o "\"=$" \o ToString(idx + 1)

\* Array.prototype.join
RECURSIVE Join(_, _)
Join(strs, sep) ==
  IF Len(strs) = 0 THEN ""
  ELSE IF Len(strs) = 1 THEN strs[1]
  ELSE strs[1] \o sep \o Join(Tail(strs), sep)

sqlForPartialUpdateNoCheck(dataToUpdate, jsToSql) ==
  LET keys == ObjectKeys(dataToUpdate)
      cols == [i \in 1..Len(keys) |-> Assignment(jsToSql, keys[i], i - 1)]
  IN [kind |-> "return",
      setCols |-> Join(cols, ", "),
      values |-> ObjectValues(dataToUpdate)]
sqlForPartialUpdate(dataToUpdate, jsToSql) ==
  LET keys == ObjectKeys(dataToUpdate)
      cols == [i \in 1..Len(keys) |-> Assignment(jsToSql, keys[i], i - 1)]
  IN IF Len(keys) = 0
       THEN [kind |-> "throw", error |-> BadRequestError(Str("No data"))]
       ELSE [kind |-> "return",
             setCols |-> Join(cols, ", "),
             values |-> ObjectValues(dataToUpdate)]

(***************************************************************************)
(* JSON objects as the routes receive them: req.body and req.query are     *)
(* objects (sequences of entries, as above) whose values carry their JSON  *)
(* type in t and their text in v.                                          *)
(***************************************************************************)
J(t, v) == [t |-> t, v |-> v]
E(k, t, v) == [key |-> k, val |-> J(t, v)]
Has(obj, k) == \E i \in 1..Len(obj) : obj[i].key = k
\* obj[k]: undefined when the object has no such key.
Get(obj, k) ==
  IF Has(obj, k) THEN obj[CHOOSE i \in 1..Len(obj) : obj[i].key = k].val
  ELSE J("undefined", "")

RECURSIVE Flatten(_)
Flatten(seqs) == IF Len(seqs) = 0 THEN <<>> ELSE Head(seqs) \o Flatten(Tail(seqs))

(***************************************************************************)
(* jsonschema.validate(instance, schema) for the schemas of the routes:    *)
(* objects with typed properties, required properties and no additional    *)
(* properties.  The result is validator.errors.map(e => e.stack); the      *)
(* instance is valid when it is empty.                                     *)
(***************************************************************************)
TypeMatches(val, type) ==
  CASE type = "integer" -> val.t = "number" /\ IsInteger(ToNumber(val.v))
    [] OTHER -> val.t = type

Validate(instance, schema) ==
  LET typeErrs ==
        [i \in 1..Len(instance) |->
           LET k == instance[i].key IN
           IF k \in DOMAIN schema.properties
                /\ ~TypeMatches(instance[i].val, schema.properties[k])
             THEN <<"instance." \o k \o " is not of a type(s) "
                      \o schema.properties[k]>>
             ELSE <<>>]
      addErrs ==
        [i \in 1..Len(instance) |->
           LET k == instance[i].key IN
           IF k \notin DOMAIN schema.properties
             THEN <<"instance is not allowed to have the additional property \""
                      \o k \o "\"">>
             ELSE <<>>]
      reqErrs ==
        [i \in 1..Len(schema.required) |->
           IF ~Has(instance, schema.required[i])
             THEN <<"instance requires property \"" \o schema.required[i] \o "\"">>
             ELSE <<>>]
  IN Flatten(typeErrs) \o Flatten(addErrs) \o Flatten(reqErrs)

Props(pairs) ==
  [k \in {pairs[i][1] : i \in 1..Len(pairs)} |->
     pairs[CHOOSE i \in 1..Len(pairs) : pairs[i][1] = k][2]]

companyNewSchema ==
  [properties |-> Props(<< <<"handle", "string">>, <<"name", "string">>,
                           <<"description", "string">>,
                           <<"numEmployees", "integer">>,
                           <<"logoUrl", "string">> >>),
   required |-> <<"handle", "name", "description">>]
companyUpdateSchema ==
  [properties |-> Props(<< <<"name", "string">>, <<"description", "string">>,
                           <<"numEmployees", "integer">>,
                           <<"logoUrl", "string">> >>),
   required |-> <<>>]
companySearchSchema ==
  [properties |-> Props(<< <<"minEmployees", "integer">>,
                           <<"maxEmployees", "integer">>,
                           <<"nameLike", "string">> >>),
   required |-> <<>>]
jobNewSchema ==
  [properties |-> Props(<< <<"title", "string">>, <<"salary", "integer">>,
                           <<"equity", "string">>,
                           <<"companyHandle", "string">> >>),
   required |-> <<"title", "companyHandle">>]
jobUpdateSchema ==
  [properties |-> Props(<< <<"title", "string">>, <<"salary", "integer">>,
                           <<"equity", "string">> >>),
   required |-> <<>>]
jobSearchSchema ==
  [properties |-> Props(<< <<"minSalary", "integer">>,
                           <<"hasEquity", "boolean">>,
                           <<"title", "string">> >>),
   required |-> <<>>]
userNewSchema ==
  [properties |-> Props(<< <<"username", "string">>, <<"password", "string">>,
                           <<"firstName", "string">>, <<"lastName", "string">>,
                           <<"email", "string">>, <<"isAdmin", "boolean">> >>),
   required |-> <<"username", "password", "firstName", "lastName", "email">>]
userUpdateSchema ==
  [properties |-> Props(<< <<"password", "string">>, <<"firstName", "string">>,
                           <<"lastName", "string">>, <<"email", "string">> >>),
   required |-> <<>>]
userAuthSchema ==
  [properties |-> Props(<< <<"username", "string">>, <<"password", "string">> >>),
   required |-> <<"username", "password">>]
userRegisterSchema ==
  [properties |-> Props(<< <<"username", "string">>, <<"password", "string">>,
                           <<"firstName", "string">>, <<"lastName", "string">>,
                           <<"email", "string">>, <<"isAdmin", "boolean">> >>),
   required |-> <<"username", "password", "firstName", "lastName", "email">>]


\* A variable of process.env is unset, or set to a string.
Unset == [set |-> FALSE, v |-> ""]
EnvVal(s) == [set |-> TRUE, v |-> s]

(***************************************************************************)
(* State.                                                                  *)
(***************************************************************************)
VARIABLES
  sqlData,      \* the dataToUpdate argument of the call under test
  sqlMap,       \* its jsToSql argument
  sqlOut,       \* the outcome of the call, or the record of no call yet
  companies,    \* table companies: handle -> row
  jobs,         \* table jobs: id -> row
  nextJobId,    \* the serial of jobs.id
  users,        \* table users: username -> row
  applications, \* table applications: set of <<username, jobId>>
  nodeEnv,      \* process.env.NODE_ENV
  served,       \* the number of requests received so far
  calls,        \* the handlers suspended at their await, in order of arrival
  req,          \* the request answered last
  resp,         \* the response to it, with the stages that handled it
  processEnv,   \* process.env: SECRET_KEY, PORT and DATABASE_URL
  config,       \* what the config module exports, once it is loaded
  dbUri         \* the last call of getDatabaseUri: what it saw and returned

sqlVars == <<sqlData, sqlMap, sqlOut>>
store == <<companies, jobs, nextJobId, users, applications>>
appVars == <<companies, jobs, nextJobId, users, applications, nodeEnv,
             served, calls, req, resp>>
configVars == <<processEnv, config, dbUri>>
vars == <<sqlData, sqlMap, sqlOut, companies, jobs, nextJobId, users,
          applications, nodeEnv, served, calls, req, resp, processEnv, config,
          dbUri>>

NotCalled == [kind |-> "none"]
NoRequest == [route |-> "none"]
NoResponse == [status |-> 0, sentBy |-> "none", stages |-> <<>>,
               call |-> "none", sends |-> 0, stackLogged |-> FALSE]
NoError == [name |-> "none", message |-> Str(""), status |-> 0]

\* The database the application starts on: one admin, one company with one
\* job.
AppInit ==
  /\ companies = [h \in {"c1"} |-> [handle |-> "c1", name |-> "n1",
                                    numEmployees |-> 2]]
  /\ jobs = [i \in {1} |-> [id |-> 1, title |-> "t1", salary |-> 1,
                            equity |-> "0", companyHandle |-> "c1"]]
  /\ nextJobId = 2
  /\ users = [u \in {"u1"} |-> [username |-> "u1", password |-> "pw",
                                firstName |-> "f1", isAdmin |-> TRUE]]
  /\ applications = {}
  /\ nodeEnv = EnvVal("test")
  /\ served = 0
  /\ calls = <<>>
  /\ req = NoRequest
  /\ resp = NoResponse

(***************************************************************************)
(* app.js: the middleware every request passes and the two handlers at the *)
(* end of the chain.                                                       *)
(***************************************************************************)
\* res.status(status).json(body), called by the stage `by`.
\* Every response records the error next() was called with, if any.
Send(status, body, by, stages, call) ==
  [status |-> status, body |-> body, sentBy |-> by, stages |-> stages,
   call |-> call, sends |-> 1, stackLogged |-> FALSE, thrown |-> NoError]

\* The generic error handler: the last middleware of the app.
ErrorHandlerAlways500(err, stages, call) ==
  [status |-> 500,
   body |-> [type |-> "errorObject",
             error |-> [message |-> err.message, status |-> 500]],
   sentBy |-> "errorHandler", stages |-> Append(stages, "errorHandler"),
   call |-> call, sends |-> 1, stackLogged |-> (nodeEnv # EnvVal("test")),
      thrown |-> err]
ErrorHandlerBodyStatusOfError(err, stages, call) ==
  LET status == IF err.status # 0 THEN err.status ELSE 500
  IN [status |-> status,
      body |-> [type |-> "errorObject",
                error |-> [message |-> err.message, status |-> err.status]],
      sentBy |-> "errorHandler", stages |-> Append(stages, "errorHandler"),
      call |-> call, sends |-> 1, stackLogged |-> (nodeEnv # EnvVal("test")),
      thrown |-> err]
ErrorHandlerGenericMessage(err, stages, call) ==
  LET status == IF err.status # 0 THEN err.status ELSE 500
      message == IF err.status # 0 THEN err.message
                 ELSE Str("Internal Server Error")
  IN [status |-> status,
      body |-> [type |-> "errorObject",
                error |-> [message |-> message, status |-> status]],
      sentBy |-> "errorHandler", stages |-> Append(stages, "errorHandler"),
      call |-> call, sends |-> 1, stackLogged |-> (nodeEnv # EnvVal("test")),
      thrown |-> err]
ErrorHandler(err, stages, call) ==
  LET status == IF err.status # 0 THEN err.status ELSE 500
      message == err.message
  IN [status |-> status,
      body |-> [type |-> "errorObject",
                error |-> [message |-> message, status |-> status]],
      sentBy |-> "errorHandler", stages |-> Append(stages, "errorHandler"),
      call |-> call, sends |-> 1, stackLogged |-> (nodeEnv # EnvVal("test")),
      thrown |-> err]

\* The 404 catch-all: next(new NotFoundError()).
NotFoundHandler(stages) ==
  ErrorHandler(NotFoundError(Str("Not Found")), Append(stages, "notFound"), "none")

(***************************************************************************)
(* Middleware.  authenticateJWT leaves in req.user the payload of a valid  *)
(* token, and nothing when there is no valid token.                        *)
(***************************************************************************)
Anonymous == [present |-> FALSE, username |-> "", isAdmin |-> FALSE]
Payload(username, isAdmin) ==
  [present |-> TRUE, username |-> username, isAdmin |-> isAdmin]
Requesters ==
  {Anonymous, Payload("u1", TRUE), Payload("u1", FALSE), Payload("u2", FALSE)}
\* The requesters tried on the routes that never read req.user.
Visitors == {Anonymous, Payload("u2", FALSE)}

\* middleware/ensureAdmin.js
ensureAdminAnyUser(user) ==
  IF ~user.present
    THEN [next |-> FALSE, status |-> 403,
          body |-> [type |-> "errorString",
                    error |-> "You must be an admin to perform this action."]]
    ELSE [next |-> TRUE]
ensureAdmin(user) ==
  IF ~user.present \/ ~user.isAdmin
    THEN [next |-> FALSE, status |-> 403,
          body |-> [type |-> "errorString",
                    error |-> "You must be an admin to perform this action."]]
    ELSE [next |-> TRUE]

\* middleware/auth.js, ensureCorrectUserOrAdmin: next() for an admin and for
\* the user named in the path, next(new UnauthorizedError()) otherwise.
ensureCorrectUserOrAdmin(user, username) ==
  IF user.present /\ (user.isAdmin \/ user.username = username)
    THEN [next |-> TRUE]
    ELSE [next |-> FALSE, error |-> UnauthorizedError(Str("Unauthorized"))]

\* The stages a request has passed when its route's handler runs.
Chain(middleware) == <<"authenticateJWT", middleware, "route">>

\* jsonschema.validate and the throw that follows it in every validating
\* route.
CheckBodySkipped(instance, schema) == [ok |-> TRUE]
CheckBody(instance, schema) ==
  LET errs == Validate(instance, schema)
  IN IF errs # <<>>
       THEN [ok |-> FALSE, error |-> BadRequestError(StrList(errs))]
       ELSE [ok |-> TRUE]

(***************************************************************************)
(* The life of a request.  Every route handler is an async function: it    *)
(* runs without interruption from the arrival of the request to its first  *)
(* await, which is the call of a model function, and returns to the event  *)
(* loop there; the database runs the query some time later; the handler    *)
(* resumes with the outcome and sends the response.  Other requests arrive *)
(* and are answered in between.  A handler that answers before its await   *)
(* (a middleware refused the request, the validation failed, no route      *)
(* matched) does so in the step the request arrives in.                    *)
(***************************************************************************)
\* A request arrives: it is counted, and neither the environment nor the
\* helper's variables change.
Begin(r) ==
  /\ served < MaxRequests
  /\ served' = served + 1
  /\ UNCHANGED <<nodeEnv, sqlData, sqlMap, sqlOut, processEnv, config, dbUri>>

Request(route, user, param, body) ==
  [route |-> route, user |-> user, param |-> param, body |-> body]

\* return res.json(...) or return next(err), before any await.
Answer(r, response) ==
  /\ req' = r
  /\ resp' = response
  /\ UNCHANGED calls
  /\ UNCHANGED store

\* await Model.fn(arg): the handler of r is suspended, nothing is sent.  n
\* is the place of the request in the order of arrival; it tells apart two
\* requests that are alike in everything else.
NoOutcome == [ok |-> FALSE, error |-> NoError]
Await(r, name, arg) ==
  /\ calls' = Append(calls, [n |-> served + 1, req |-> r, call |-> name,
                             arg |-> arg, phase |-> "called",
                             m |-> NoOutcome])
  /\ UNCHANGED <<req, resp>>
  /\ UNCHANGED store

\* The suspended handlers of a route: those whose query has not run yet, and
\* those whose query has.
Called(route) ==
  { i \in DOMAIN calls : calls[i].req.route = route /\ calls[i].phase = "called" }
Done(route) ==
  { i \in DOMAIN calls : calls[i].req.route = route /\ calls[i].phase = "done" }

\* What the handler gets back from its await: the value the model function
\* returned, or the error it threw.
Outcome(m) ==
  IF ~m.ok THEN [ok |-> FALSE, error |-> m.error]
  ELSE IF "value" \in DOMAIN m THEN [ok |-> TRUE, value |-> m.value]
  ELSE [ok |-> TRUE]

\* The tables a model function wrote replace the stored ones.
Commit(m) ==
  /\ companies' = IF "companies" \in DOMAIN m THEN m.companies ELSE companies
  /\ jobs' = IF "jobs" \in DOMAIN m THEN m.jobs ELSE jobs
  /\ nextJobId' = IF "nextJobId" \in DOMAIN m THEN m.nextJobId ELSE nextJobId
  /\ users' = IF "users" \in DOMAIN m THEN m.users ELSE users
  /\ applications' = IF "applications" \in DOMAIN m THEN m.applications
                     ELSE applications

\* The database runs the model function of the suspended handler i, with
\* outcome m; the handler has not resumed yet.
Settle(i, m) ==
  /\ calls' = [calls EXCEPT ![i] = [@ EXCEPT !.phase = "done", !.m = Outcome(m)]]
  /\ Commit(m)
  /\ UNCHANGED <<served, req, resp, nodeEnv, sqlData, sqlMap, sqlOut,
                 processEnv, config, dbUri>>

\* The handler i resumes after its await and sends the response.
Resume(i, response) ==
  /\ req' = calls[i].req
  /\ resp' = response
  /\ calls' = [j \in 1..(Len(calls) - 1) |->
                 IF j < i THEN calls[j] ELSE calls[j + 1]]
  /\ UNCHANGED store
  /\ UNCHANGED <<served, nodeEnv, sqlData, sqlMap, sqlOut, processEnv, config,
                 dbUri>>

\* A table with one row put in, and with rows taken out.
Put(table, key, row) ==
  [k \in DOMAIN table \cup {key} |-> IF k = key THEN row ELSE table[k]]
Without(table, keys) == [k \in DOMAIN table \ keys |-> table[k]]

(***************************************************************************)
(* models/company.js                                                       *)
(***************************************************************************)
Fail(error) == [ok |-> FALSE, error |-> error]

\* The columns of type integer hold what the database reads of the text of
\* the JSON integer they were given (the validation let nothing else
\* through), 0 when they were given none.
CompanyCreate(data) ==
  LET h == Get(data, "handle").v
      row == [handle |-> h, name |-> Get(data, "name").v,
              numEmployees |->
                IF Has(data, "numEmployees")
                  THEN IntegerInput(Get(data, "numEmployees").v).m ELSE 0]
  IN IF h \in DOMAIN companies
       THEN Fail(BadRequestError(Str("Duplicate company: " \o h)))
       ELSE [ok |-> TRUE, value |-> row, companies |-> Put(companies, h, row)]

CompanyFindAll(q) ==
  LET min == IF Has(q, "minEmployees")
               THEN IntegerInput(Get(q, "minEmployees").v).m ELSE 0
      hasMax == Has(q, "maxEmployees")
      max == IF hasMax THEN IntegerInput(Get(q, "maxEmployees").v).m ELSE 0
  IN IF hasMax /\ min > max
       THEN Fail(BadRequestError(Str("Min employees cannot be greater than max")))
       ELSE [ok |-> TRUE,
             value |-> { companies[h] : h \in
                          { x \in DOMAIN companies :
                              /\ Has(q, "minEmployees")
                                   => companies[x].numEmployees >= min
                              /\ hasMax => companies[x].numEmployees <= max
                              /\ Has(q, "nameLike")
                                   => companies[x].name = Get(q, "nameLike").v } }]

CompanyGet(handle) ==
  IF handle \notin DOMAIN companies
    THEN Fail(NotFoundError(Str("No company: " \o handle)))
    ELSE [ok |-> TRUE,
          value |-> [company |-> companies[handle],
                     jobs |-> { i \in DOMAIN jobs :
                                  jobs[i].companyHandle = handle }]]

CompanyJsToSql == [k \in {"numEmployees", "logoUrl"} |->
                     IF k = "numEmployees" THEN "num_employees" ELSE "logo_url"]
CompanyUpdate(handle, data) ==
  LET sql == sqlForPartialUpdate(data, CompanyJsToSql)
  IN IF sql.kind = "throw" THEN Fail(sql.error)
     ELSE IF handle \notin DOMAIN companies
       THEN Fail(NotFoundError(Str("No company: " \o handle)))
     ELSE LET old == companies[handle]
              row == [handle |-> handle,
                      name |-> IF Has(data, "name") THEN Get(data, "name").v
                               ELSE old.name,
                      numEmployees |->
                        IF Has(data, "numEmployees")
                          THEN IntegerInput(Get(data, "numEmployees").v).m
                          ELSE old.numEmployees]
          IN [ok |-> TRUE, value |-> row,
              companies |-> Put(companies, handle, row)]

\* DELETE FROM companies; its jobs and the applications to them go with it
\* (ON DELETE CASCADE).
CompanyRemove(handle) ==
  IF handle \notin DOMAIN companies
    THEN Fail(NotFoundError(Str("No company: " \o handle)))
    ELSE LET gone == { i \in DOMAIN jobs : jobs[i].companyHandle = handle }
         IN [ok |-> TRUE,
             companies |-> Without(companies, {handle}),
             jobs |-> Without(jobs, gone),
             applications |-> { a \in applications : a[2] \notin gone }]

(***************************************************************************)
(* routes/companies.js.  Every route is the three steps of its handler,    *)
(* in this order: the handler up to its await (or to the response, when it *)
(* sends one before), the model function running in the database, and the  *)
(* handler after the await.                                                *)
(***************************************************************************)
Handles == {"c1", "c2"}
CompanyFields(h) ==
  <<E("handle", "string", h), E("name", "string", "n1"),
    E("description", "string", "d")>>
CompanyNewBodies ==
  { CompanyFields(h) \o <<E("numEmployees", "number", "2")>> : h \in Handles }
    \cup { <<E("handle", "string", "c2")>>,
           CompanyFields("c2") \o <<E("numEmployees", "string", "many")>>,
           CompanyFields("c2") \o <<E("numEmployees", "number", "2.5")>>,
           CompanyFields("c2") \o <<E("founded", "number", "1")>> }
CompanyUpdateBodies ==
  { <<E("name", "string", "n2")>>,
    <<>>,
    <<E("handle", "string", "c2")>>,
    <<E("name", "string", "n2"), E("numEmployees", "string", "many")>> }
CompanyQueries ==
  { <<>>,
    <<E("minEmployees", "string", "\\u20031.0")>>,
    <<E("minEmployees", "string", "3"), E("maxEmployees", "string", "0x2")>>,
    <<E("minEmployees", "string", "abc")>>,
    <<E("maxEmployees", "string", "1.5")>>,
    <<E("nameLike", "string", "n1"), E("size", "string", "1")>> }

\* return res.status(201).json(...) of the creating routes.
CreatedOk(body, stages, call) == Send(200, body, "route", stages, call)
Created(body, stages, call) == Send(201, body, "route", stages, call)
\* return res.json(...)
Ok(body, stages, call) == Send(200, body, "route", stages, call)

\* A response, with the object the route handed to the validator and the
\* model: the query after its conversions, or the data of User.register.
WithArg(r, data) ==
  [status |-> r.status, body |-> r.body, sentBy |-> r.sentBy,
   stages |-> r.stages, call |-> r.call, sends |-> r.sends,
   stackLogged |-> r.stackLogged, thrown |-> r.thrown, arg |-> data]

\* What an admin-only route does with a request ensureAdmin stopped.
Denied(r, mw) ==
  Answer(r, Send(mw.status, mw.body, "ensureAdmin",
                 <<"authenticateJWT", "ensureAdmin">>, "none"))

\* return next(err) of the catch block, after an await that threw.
Caught(m, stages, call) == ErrorHandler(m.error, stages, call)

CompaniesPost ==
  \/ \E user \in Requesters, body \in CompanyNewBodies :
       LET r == Request("POST /companies", user, "", body)
           mw == ensureAdmin(user)
           v == CheckBody(body, companyNewSchema)
       IN /\ Begin(r)
          /\ IF ~mw.next THEN Denied(r, mw)
             ELSE IF ~v.ok
               THEN Answer(r, ErrorHandler(v.error, Chain("ensureAdmin"), "none"))
             ELSE Await(r, "Company.create", body)
  \/ \E i \in Called("POST /companies") : Settle(i, CompanyCreate(calls[i].arg))
  \/ \E i \in Done("POST /companies") :
       LET m == calls[i].m
           st == Chain("ensureAdmin")
       IN Resume(i, IF ~m.ok THEN Caught(m, st, "Company.create")
                    ELSE Created([type |-> "company", company |-> m.value],
                                 st, "Company.create"))

\* The text of a number as a JSON value: the route's conversions put
\* numbers, NaN among them, in the place of the strings of the query.
NumberValue(n) == J("number", NumberText(n))

\* lines 61-62: if (q.x !== undefined) q.x = +q.x
CoerceNumber(q, k) ==
  [i \in 1..Len(q) |->
     IF q[i].key = k
       THEN [key |-> k, val |-> NumberValue(ToNumber(q[i].val.v))]
       ELSE q[i]]

CompaniesList ==
  \/ \E user \in Visitors, query \in CompanyQueries :
       LET r == Request("GET /companies", user, "", query)
           q == CoerceNumber(CoerceNumber(query, "minEmployees"), "maxEmployees")
           v == CheckBody(q, companySearchSchema)
       IN /\ Begin(r)
          /\ IF ~v.ok
               THEN Answer(r, WithArg(ErrorHandler(v.error, Chain("none"), "none"),
                                      q))
               ELSE Await(r, "Company.findAll", q)
  \/ \E i \in Called("GET /companies") : Settle(i, CompanyFindAll(calls[i].arg))
  \/ \E i \in Done("GET /companies") :
       LET m == calls[i].m
           st == Chain("none")
       IN Resume(i, WithArg(IF ~m.ok THEN Caught(m, st, "Company.findAll")
                            ELSE Ok([type |-> "companies", companies |-> m.value],
                                    st, "Company.findAll"),
                            calls[i].arg))

CompaniesGet ==
  \/ \E user \in Visitors, handle \in Handles :
       LET r == Request("GET /companies/:handle", user, handle, <<>>)
       IN /\ Begin(r)
          /\ Await(r, "Company.get", <<>>)
  \/ \E i \in Called("GET /companies/:handle") :
       Settle(i, CompanyGet(calls[i].req.param))
  \/ \E i \in Done("GET /companies/:handle") :
       LET m == calls[i].m
           st == Chain("none")
       IN Resume(i, IF ~m.ok THEN Caught(m, st, "Company.get")
                    ELSE Ok([type |-> "company", company |-> m.value],
                            st, "Company.get"))

CompaniesPatch ==
  \/ \E user \in Requesters, handle \in Handles, body \in CompanyUpdateBodies :
       LET r == Request("PATCH /companies/:handle", user, handle, body)
           mw == ensureAdmin(user)
           v == CheckBody(body, companyUpdateSchema)
       IN /\ Begin(r)
          /\ IF ~mw.next THEN Denied(r, mw)
             ELSE IF ~v.ok
               THEN Answer(r, ErrorHandler(v.error, Chain("ensureAdmin"), "none"))
             ELSE Await(r, "Company.update", body)
  \/ \E i \in Called("PATCH /companies/:handle") :
       Settle(i, CompanyUpdate(calls[i].req.param, calls[i].arg))
  \/ \E i \in Done("PATCH /companies/:handle") :
       LET m == calls[i].m
           st == Chain("ensureAdmin")
       IN Resume(i, IF ~m.ok THEN Caught(m, st, "Company.update")
                    ELSE Ok([type |-> "company", company |-> m.value],
                            st, "Company.update"))

\* try { await Model.remove(id); return res.json({ deleted: id }) }
\* catch (err) { return next(err) }
DeleteReplyUnchecked(m, id, stages, call) ==
  Ok([type |-> "deleted", deleted |-> id], stages, call)
DeleteReply(m, id, stages, call) ==
  IF ~m.ok THEN Caught(m, stages, call)
  ELSE Ok([type |-> "deleted", deleted |-> id], stages, call)

CompaniesDelete ==
  \/ \E user \in Requesters, handle \in Handles :
       LET r == Request("DELETE /companies/:handle", user, handle, <<>>)
           mw == ensureAdmin(user)
       IN /\ Begin(r)
          /\ IF ~mw.next THEN Denied(r, mw)
             ELSE Await(r, "Company.remove", <<>>)
  \/ \E i \in Called("DELETE /companies/:handle") :
       Settle(i, CompanyRemove(calls[i].req.param))
  \/ \E i \in Done("DELETE /companies/:handle") :
       Resume(i, DeleteReply(calls[i].m, calls[i].req.param,
                             Chain("ensureAdmin"), "Company.remove"))

(***************************************************************************)
(* models/job.js                                                           *)
(***************************************************************************)
\* What the database answers to a job id that is no integer.
InvalidInteger(text) ==
  PlainError(Str("invalid input syntax for type integer: \"" \o text \o "\""))

JobCreate(data) ==
  LET h == Get(data, "companyHandle").v
      row == [id |-> nextJobId, title |-> Get(data, "title").v,
              salary |-> IF Has(data, "salary")
                           THEN IntegerInput(Get(data, "salary").v).m ELSE 0,
              equity |-> IF Has(data, "equity") THEN Get(data, "equity").v
                         ELSE "0",
              companyHandle |-> h]
  IN IF h \notin DOMAIN companies
       THEN Fail(PlainError(Str("insert or update on table \"jobs\" violates "
                                  \o "foreign key constraint")))
       ELSE [ok |-> TRUE, value |-> row, jobs |-> Put(jobs, nextJobId, row),
             nextJobId |-> nextJobId + 1]

JobFindAll(q) ==
  LET min == IF Has(q, "minSalary") THEN IntegerInput(Get(q, "minSalary").v).m
             ELSE 0
      eq == Has(q, "hasEquity") /\ Get(q, "hasEquity").v = "true"
  IN [ok |-> TRUE,
      value |-> { jobs[i] : i \in
                   { x \in DOMAIN jobs :
                       /\ Has(q, "minSalary") => jobs[x].salary >= min
                       /\ eq => jobs[x].equity # "0"
                       /\ Has(q, "title") => jobs[x].title = Get(q, "title").v } }]

JobGet(id) ==
  LET n == IntegerInput(id)
  IN IF n.nan THEN Fail(InvalidInteger(id))
     ELSE IF n.m \notin DOMAIN jobs
       THEN Fail(NotFoundError(Str("No job: " \o id)))
     ELSE [ok |-> TRUE, value |-> jobs[n.m]]

JobUpdate(id, data) ==
  LET sql == sqlForPartialUpdate(data, <<>>)
      n == IntegerInput(id)
  IN IF sql.kind = "throw" THEN Fail(sql.error)
     ELSE IF n.nan THEN Fail(InvalidInteger(id))
     ELSE IF n.m \notin DOMAIN jobs
       THEN Fail(NotFoundError(Str("No job: " \o id)))
     ELSE LET old == jobs[n.m]
              row == [old EXCEPT
                        !.title = IF Has(data, "title")
                                    THEN Get(data, "title").v ELSE @,
                        !.salary =
                          IF Has(data, "salary")
                            THEN IntegerInput(Get(data, "salary").v).m ELSE @]
          IN [ok |-> TRUE, value |-> row, jobs |-> Put(jobs, n.m, row)]

JobRemove(id) ==
  LET n == IntegerInput(id)
  IN IF n.nan THEN Fail(InvalidInteger(id))
     ELSE IF n.m \notin DOMAIN jobs
       THEN Fail(NotFoundError(Str("No job: " \o id)))
     ELSE [ok |-> TRUE, jobs |-> Without(jobs, {n.m}),
           applications |-> { a \in applications : a[2] # n.m }]

(***************************************************************************)
(* routes/jobs.js                                                          *)
(***************************************************************************)
JobIdParams == {"1", "2", "abc", "1e0"}
JobNewBodies ==
  { <<E("title", "string", "t1"), E("salary", "number", "1"),
      E("equity", "string", "0"), E("companyHandle", "string", h)>> :
        h \in Handles }
    \cup { <<E("title", "string", "t1")>>,
           <<E("title", "string", "t1"), E("salary", "string", "high"),
             E("companyHandle", "string", "c1")>>,
           <<E("title", "string", "t1"), E("companyHandle", "string", "c1"),
             E("id", "number", "5")>> }
JobUpdateBodies ==
  { <<E("title", "string", "t2")>>,
    <<>>,
    <<E("companyHandle", "string", "c2")>>,
    <<E("title", "number", "2")>> }
JobQueries ==
  { <<>>,
    <<E("minSalary", "string", "1e0"), E("hasEquity", "string", "true")>>,
    <<E("hasEquity", "string", "yes")>>,
    <<E("minSalary", "string", "abc")>>,
    <<E("minSalary", "string", "0.5")>>,
    <<E("title", "string", "t1"), E("page", "string", "1")>> }

\* An object with a key assigned: in place when the object has the key, at
\* the end when it has not.
Assign(obj, k, val) ==
  IF Has(obj, k)
    THEN [i \in 1..Len(obj) |-> IF obj[i].key = k THEN [key |-> k, val |-> val]
                                ELSE obj[i]]
    ELSE Append(obj, [key |-> k, val |-> val])

\* line 58: q.hasEquity = q.hasEquity === "true"
CoerceHasEquityWhenPresent(q) ==
  IF Has(q, "hasEquity")
    THEN Assign(q, "hasEquity",
                J("boolean", IF Get(q, "hasEquity").t = "string"
                                  /\ Get(q, "hasEquity").v = "true"
                               THEN "true" ELSE "false"))
    ELSE q
CoerceHasEquity(q) ==
  Assign(q, "hasEquity",
         J("boolean", IF Has(q, "hasEquity") /\ Get(q, "hasEquity").t = "string"
                           /\ Get(q, "hasEquity").v = "true"
                        THEN "true" ELSE "false"))

JobsPost ==
  \/ \E user \in Requesters, body \in JobNewBodies :
       LET r == Request("POST /jobs", user, "", body)
           mw == ensureAdmin(user)
           v == CheckBody(body, jobNewSchema)
       IN /\ Begin(r)
          /\ IF ~mw.next THEN Denied(r, mw)
             ELSE IF ~v.ok
               THEN Answer(r, ErrorHandler(v.error, Chain("ensureAdmin"), "none"))
             ELSE Await(r, "Job.create", body)
  \/ \E i \in Called("POST /jobs") : Settle(i, JobCreate(calls[i].arg))
  \/ \E i \in Done("POST /jobs") :
       LET m == calls[i].m
           st == Chain("ensureAdmin")
       IN Resume(i, IF ~m.ok THEN Caught(m, st, "Job.create")
                    ELSE Created([type |-> "job", job |-> m.value],
                                 st, "Job.create"))

JobsList ==
  \/ \E user \in Visitors, query \in JobQueries :
       LET r == Request("GET /jobs", user, "", query)
           q == CoerceHasEquity(CoerceNumber(query, "minSalary"))
           v == CheckBody(q, jobSearchSchema)
       IN /\ Begin(r)
          /\ IF ~v.ok
               THEN Answer(r, WithArg(ErrorHandler(v.error, Chain("none"), "none"),
                                      q))
               ELSE Await(r, "Job.findAll", q)
  \/ \E i \in Called("GET /jobs") : Settle(i, JobFindAll(calls[i].arg))
  \/ \E i \in Done("GET /jobs") :
       LET m == calls[i].m
           st == Chain("none")
       IN Resume(i, WithArg(IF ~m.ok THEN Caught(m, st, "Job.findAll")
                            ELSE Ok([type |-> "jobs", jobs |-> m.value],
                                    st, "Job.findAll"),
                            calls[i].arg))

JobsGet ==
  \/ \E user \in Visitors, id \in JobIdParams :
       LET r == Request("GET /jobs/:id", user, id, <<>>)
       IN /\ Begin(r)
          /\ Await(r, "Job.get", <<>>)
  \/ \E i \in Called("GET /jobs/:id") : Settle(i, JobGet(calls[i].req.param))
  \/ \E i \in Done("GET /jobs/:id") :
       LET m == calls[i].m
           st == Chain("none")
       IN Resume(i, IF ~m.ok THEN Caught(m, st, "Job.get")
                    ELSE Ok([type |-> "job", job |-> m.value], st, "Job.get"))

JobsPatch ==
  \/ \E user \in Requesters, id \in JobIdParams, body \in JobUpdateBodies :
       LET r == Request("PATCH /jobs/:id", user, id, body)
           mw == ensureAdmin(user)
           v == CheckBody(body, jobUpdateSchema)
       IN /\ Begin(r)
          /\ IF ~mw.next THEN Denied(r, mw)
             ELSE IF ~v.ok
               THEN Answer(r, ErrorHandler(v.error, Chain("ensureAdmin"), "none"))
             ELSE Await(r, "Job.update", body)
  \/ \E i \in Called("PATCH /jobs/:id") :
       Settle(i, JobUpdate(calls[i].req.param, calls[i].arg))
  \/ \E i \in Done("PATCH /jobs/:id") :
       LET m == calls[i].m
           st == Chain("ensureAdmin")
       IN Resume(i, IF ~m.ok THEN Caught(m, st, "Job.update")
                    ELSE Ok([type |-> "job", job |-> m.value], st, "Job.update"))

\* line 131: { deleted: +req.params.id }
JobsDelete ==
  \/ \E user \in Requesters, id \in JobIdParams :
       LET r == Request("DELETE /jobs/:id", user, id, <<>>)
           mw == ensureAdmin(user)
       IN /\ Begin(r)
          /\ IF ~mw.next THEN Denied(r, mw)
             ELSE Await(r, "Job.remove", <<>>)
  \/ \E i \in Called("DELETE /jobs/:id") : Settle(i, JobRemove(calls[i].req.param))
  \/ \E i \in Done("DELETE /jobs/:id") :
       Resume(i, DeleteReply(calls[i].m, ToNumber(calls[i].req.param),
                             Chain("ensureAdmin"), "Job.remove"))

(***************************************************************************)
(* models/user.js and helpers/tokens.js                                    *)
(***************************************************************************)
\* The payload of the token createToken signs.
createToken(user) == [username |-> user.username, isAdmin |-> user.isAdmin]

\* What the model returns of a row: everything but the password.
Public(row) == [username |-> row.username, firstName |-> row.firstName,
                isAdmin |-> row.isAdmin]

UserRegister(data) ==
  LET u == Get(data, "username").v
      row == [username |-> u, password |-> Get(data, "password").v,
              firstName |-> Get(data, "firstName").v,
              isAdmin |-> Has(data, "isAdmin") /\ Get(data, "isAdmin").v = "true"]
  IN IF u \in DOMAIN users
       THEN Fail(BadRequestError(Str("Duplicate username: " \o u)))
       ELSE [ok |-> TRUE, value |-> Public(row), users |-> Put(users, u, row)]

UserAuthenticate(username, password) ==
  IF username \in DOMAIN users /\ users[username].password = password
    THEN [ok |-> TRUE, value |-> Public(users[username])]
    ELSE Fail(UnauthorizedError(Str("Invalid username/password")))

UserFindAll == [ok |-> TRUE, value |-> { Public(users[u]) : u \in DOMAIN users }]

UserGet(username) ==
  IF username \notin DOMAIN users
    THEN Fail(NotFoundError(Str("No user: " \o username)))
    ELSE [ok |-> TRUE,
          value |-> [user |-> Public(users[username]),
                     jobs |-> { a[2] : a \in { x \in applications :
                                                 x[1] = username } }]]

UserJsToSql == [k \in {"firstName", "lastName", "isAdmin"} |->
                  CASE k = "firstName" -> "first_name"
                    [] k = "lastName" -> "last_name"
                    [] k = "isAdmin" -> "is_admin"]
UserUpdate(username, data) ==
  LET sql == sqlForPartialUpdate(data, UserJsToSql)
  IN IF sql.kind = "throw" THEN Fail(sql.error)
     ELSE IF username \notin DOMAIN users
       THEN Fail(NotFoundError(Str("No user: " \o username)))
     ELSE LET row == [users[username] EXCEPT
                        !.firstName = IF Has(data, "firstName")
                                        THEN Get(data, "firstName").v ELSE @,
                        !.password = IF Has(data, "password")
                                       THEN Get(data, "password").v ELSE @]
          IN [ok |-> TRUE, value |-> Public(row),
              users |-> Put(users, username, row)]

UserRemove(username) ==
  IF username \notin DOMAIN users
    THEN Fail(NotFoundError(Str("No user: " \o username)))
    ELSE [ok |-> TRUE, users |-> Without(users, {username}),
          applications |-> { a \in applications : a[1] # username }]

\* jobId is the number the route made of the path parameter; the database
\* is sent its text and reads it as an integer.
UserApplyToJob(username, jobId) ==
  LET n == IntegerInput(NumberText(jobId))
  IN IF n.nan THEN Fail(InvalidInteger(NumberText(jobId)))
     ELSE IF n.m \notin DOMAIN jobs
       THEN Fail(NotFoundError(Str("No job: " \o NumberText(jobId))))
     ELSE IF username \notin DOMAIN users
       THEN Fail(NotFoundError(Str("No username: " \o username)))
     ELSE IF <<username, n.m>> \in applications
       THEN Fail(PlainError(Str("duplicate key value violates unique "
                                  \o "constraint \"applications_pkey\"")))
     ELSE [ok |-> TRUE,
           applications |-> applications \cup {<<username, n.m>>}]

(***************************************************************************)
(* routes/users.js                                                         *)
(***************************************************************************)
Usernames == {"u1", "u2"}
UserFields(u) ==
  <<E("username", "string", u), E("password", "string", "pw"),
    E("firstName", "string", "f1"), E("lastName", "string", "l"),
    E("email", "string", "e@x.io")>>
UserNewBodies ==
  { UserFields(u) : u \in Usernames }
    \cup { UserFields("u2") \o <<E("isAdmin", "boolean", "true")>>,
           <<E("username", "string", "u2")>>,
           UserFields("u2") \o <<E("isAdmin", "string", "yes")>>,
           UserFields("u2") \o <<E("role", "string", "root")>> }
UserUpdateBodies ==
  { <<E("firstName", "string", "f2")>>,
    <<>>,
    <<E("isAdmin", "boolean", "true")>>,
    <<E("firstName", "number", "2")>> }
\* The job ids tried on POST /users/:username/jobs/:id.
ApplyIdParams == {"1", "2", "abc", "1e0", "1e-400"}

\* The middleware the routes under /users/:username are registered with.
UsersRouteGuardNone(user, username) == [next |-> TRUE]
UsersRouteGuard(user, username) == ensureCorrectUserOrAdmin(user, username)

\* What such a route does with a request its middleware stopped.
Refused(r, mw) ==
  Answer(r, ErrorHandler(mw.error,
                         <<"authenticateJWT", "ensureCorrectUserOrAdmin">>,
                         "none"))

UsersPost ==
  \/ \E user \in Requesters, body \in UserNewBodies :
       LET r == Request("POST /users", user, "", body)
           mw == ensureAdmin(user)
           v == CheckBody(body, userNewSchema)
       IN /\ Begin(r)
          /\ IF ~mw.next THEN Denied(r, mw)
             ELSE IF ~v.ok
               THEN Answer(r, ErrorHandler(v.error, Chain("ensureAdmin"), "none"))
             ELSE Await(r, "User.register", body)
  \/ \E i \in Called("POST /users") : Settle(i, UserRegister(calls[i].arg))
  \/ \E i \in Done("POST /users") :
       LET m == calls[i].m
           st == Chain("ensureAdmin")
       IN Resume(i, WithArg(IF ~m.ok THEN Caught(m, st, "User.register")
                            ELSE Created([type |-> "user+token",
                                          user |-> m.value,
                                          token |-> createToken(m.value)],
                                         st, "User.register"),
                            calls[i].arg))

UsersList ==
  \/ \E user \in Requesters :
       LET r == Request("GET /users", user, "", <<>>)
           mw == ensureAdmin(user)
       IN /\ Begin(r)
          /\ IF ~mw.next THEN Denied(r, mw)
             ELSE Await(r, "User.findAll", <<>>)
  \/ \E i \in Called("GET /users") : Settle(i, UserFindAll)
  \/ \E i \in Done("GET /users") :
       LET m == calls[i].m
           st == Chain("ensureAdmin")
       IN Resume(i, IF ~m.ok THEN Caught(m, st, "User.findAll")
                    ELSE Ok([type |-> "users", users |-> m.value],
                            st, "User.findAll"))

UsersGet ==
  \/ \E user \in Requesters, username \in Usernames :
       LET r == Request("GET /users/:username", user, username, <<>>)
           mw == UsersRouteGuard(user, username)
       IN /\ Begin(r)
          /\ IF ~mw.next THEN Refused(r, mw)
             ELSE Await(r, "User.get", <<>>)
  \/ \E i \in Called("GET /users/:username") :
       Settle(i, UserGet(calls[i].req.param))
  \/ \E i \in Done("GET /users/:username") :
       LET m == calls[i].m
           st == Chain("ensureCorrectUserOrAdmin")
       IN Resume(i, IF ~m.ok THEN Caught(m, st, "User.get")
                    ELSE Ok([type |-> "user", user |-> m.value], st, "User.get"))

UsersPatch ==
  \/ \E user \in Requesters, username \in Usernames, body \in UserUpdateBodies :
       LET r == Request("PATCH /users/:username", user, username, body)
           mw == UsersRouteGuard(user, username)
           v == CheckBody(body, userUpdateSchema)
       IN /\ Begin(r)
          /\ IF ~mw.next THEN Refused(r, mw)
             ELSE IF ~v.ok
               THEN Answer(r, ErrorHandler(v.error,
                                           Chain("ensureCorrectUserOrAdmin"),
                                           "none"))
             ELSE Await(r, "User.update", body)
  \/ \E i \in Called("PATCH /users/:username") :
       Settle(i, UserUpdate(calls[i].req.param, calls[i].arg))
  \/ \E i \in Done("PATCH /users/:username") :
       LET m == calls[i].m
           st == Chain("ensureCorrectUserOrAdmin")
       IN Resume(i, IF ~m.ok THEN Caught(m, st, "User.update")
                    ELSE Ok([type |-> "user", user |-> m.value],
                            st, "User.update"))

UsersDelete ==
  \/ \E user \in Requesters, username \in Usernames :
       LET r == Request("DELETE /users/:username", user, username, <<>>)
           mw == UsersRouteGuard(user, username)
       IN /\ Begin(r)
          /\ IF ~mw.next THEN Refused(r, mw)
             ELSE Await(r, "User.remove", <<>>)
  \/ \E i \in Called("DELETE /users/:username") :
       Settle(i, UserRemove(calls[i].req.param))
  \/ \E i \in Done("DELETE /users/:username") :
       Resume(i, DeleteReply(calls[i].m, calls[i].req.param,
                             Chain("ensureCorrectUserOrAdmin"), "User.remove"))

\* The request of POST /users/:username/jobs/:id carries both parameters.
\* line 266: const jobId = +req.params.id
JobIdOf(r) == ToNumber(r.id)

UsersApply ==
  \/ \E user \in Requesters, username \in Usernames, id \in ApplyIdParams :
       LET r == [route |-> "POST /users/:username/jobs/:id", user |-> user,
                 param |-> username, body |-> <<>>, id |-> id]
           mw == UsersRouteGuard(user, username)
       IN /\ Begin(r)
          /\ IF ~mw.next THEN Refused(r, mw)
             ELSE Await(r, "User.applyToJob", <<>>)
  \/ \E i \in Called("POST /users/:username/jobs/:id") :
       Settle(i, UserApplyToJob(calls[i].req.param, JobIdOf(calls[i].req)))
  \/ \E i \in Done("POST /users/:username/jobs/:id") :
       LET m == calls[i].m
           st == Chain("ensureCorrectUserOrAdmin")
       IN Resume(i, IF ~m.ok THEN Caught(m, st, "User.applyToJob")
                    ELSE Ok([type |-> "applied",
                             applied |-> JobIdOf(calls[i].req)],
                            st, "User.applyToJob"))

(***************************************************************************)
(* routes/auth.js                                                          *)
(***************************************************************************)
UserAuthBodies ==
  { <<E("username", "string", u), E("password", "string", p)>> :
      u \in Usernames, p \in {"pw", "bad"} }
    \cup { <<E("username", "string", "u1")>>,
           <<E("username", "string", "u1"), E("password", "number", "1")>> }
UserRegisterBodies ==
  { UserFields(u) : u \in Usernames }
    \cup { UserFields("u2") \o <<E("isAdmin", "boolean", "true")>>,
           <<E("username", "string", "u2"), E("password", "string", "pw")>>,
           UserFields("u2") \o <<E("role", "string", "root")>> }

AuthToken ==
  \/ \E user \in Visitors, body \in UserAuthBodies :
       LET r == Request("POST /auth/token", user, "", body)
           v == CheckBody(body, userAuthSchema)
       IN /\ Begin(r)
          /\ IF ~v.ok
               THEN Answer(r, ErrorHandler(v.error, Chain("none"), "none"))
               ELSE Await(r, "User.authenticate", body)
  \/ \E i \in Called("POST /auth/token") :
       Settle(i, UserAuthenticate(Get(calls[i].arg, "username").v,
                                  Get(calls[i].arg, "password").v))
  \/ \E i \in Done("POST /auth/token") :
       LET m == calls[i].m
           st == Chain("none")
       IN Resume(i, IF ~m.ok THEN Caught(m, st, "User.authenticate")
                    ELSE Ok([type |-> "token", token |-> createToken(m.value)],
                            st, "User.authenticate"))

\* line 198: { ...req.body, isAdmin: false }
RegisterDataAsSent(body) == body
RegisterData(body) == Assign(body, "isAdmin", J("boolean", "false"))

AuthRegister ==
  \/ \E user \in Visitors, body \in UserRegisterBodies :
       LET r == Request("POST /auth/register", user, "", body)
           v == CheckBody(body, userRegisterSchema)
       IN /\ Begin(r)
          /\ IF ~v.ok
               THEN Answer(r, ErrorHandler(v.error, Chain("none"), "none"))
               ELSE Await(r, "User.register", RegisterData(body))
  \/ \E i \in Called("POST /auth/register") :
       Settle(i, UserRegister(calls[i].arg))
  \/ \E i \in Done("POST /auth/register") :
       LET m == calls[i].m
           st == Chain("none")
       IN Resume(i, WithArg(IF ~m.ok THEN Caught(m, st, "User.register")
                            ELSE Created([type |-> "token",
                                          token |-> createToken(m.value)],
                                         st, "User.register"),
                            calls[i].arg))

(***************************************************************************)
(* app.js: a request no router answers, and the environment.               *)
(***************************************************************************)
UnroutedRequests ==
  {"GET /no-such-path", "PUT /companies/c1", "POST /jobs/1", "DELETE /auth/token"}

NoRoute ==
  \E user \in Visitors, path \in UnroutedRequests :
    LET r == Request(path, user, "", <<>>)
    IN /\ Begin(r)
       /\ Answer(r, NotFoundHandler(<<"authenticateJWT">>))

\* app.test.js sets NODE_ENV to "" and deletes it.
NodeEnvs == {EnvVal("test"), EnvVal(""), Unset}
SetNodeEnv ==
  \E e \in NodeEnvs \ {nodeEnv} :
    /\ nodeEnv' = e
    /\ UNCHANGED <<sqlData, sqlMap, sqlOut, companies, jobs, nextJobId, users,
                   applications, served, calls, req, resp, processEnv, config,
                   dbUri>>

(***************************************************************************)
(* config.js                                                               *)
(***************************************************************************)
\* process.env.X || fallback : undefined and "" are falsy.
EnvOr(e, fallback) == IF e.set /\ e.v # "" THEN e.v ELSE fallback

\* line 22: require("dotenv").config() reads the file .env of the working
\* directory, when there is one, and gives process.env the variables the
\* file assigns and process.env does not hold.  A file is the sequence of
\* the lines that split("\n") makes of it.  A line assigns when it matches
\* /^\s*([\w.-]+)\s*=\s*(.*)?\s*$/ : a key, "=", and a value that runs to
\* the end of the line or to a line terminator with white space only after
\* it.  Of two lines for a key the later one counts.
\* value.replace(/\\n/gm, "\n") : a backslash and n become a line feed.
RECURSIVE ExpandNewlines(_)
ExpandNewlines(v) ==
  IF Len(v) = 0 THEN v
  ELSE IF Sub(v, 1, 3) = "\\\\n"
    THEN "\n" \o ExpandNewlines(Sub(v, 4, Len(v)))
  ELSE Sub(v, 1, CharLen(v)) \o ExpandNewlines(Sub(v, CharLen(v) + 1, Len(v)))
\* The value assigned, of the match v: newlines are expanded when v begins
\* and ends with a double quote; then
\* value.replace(/(^['"]|['"]$)/g, "").trim() takes off a quote at the
\* start, a quote at the end, and then the white space at both ends.
DotenvValue(v) ==
  LET w == IF Len(v) > 0 /\ Char(v, 1) = "\"" /\ Char(v, Len(v)) = "\""
             THEN ExpandNewlines(v) ELSE v
  IN Trim(Sub(w, IF Char(w, 1) \in {"\"", "'"} THEN 2 ELSE 1,
              IF Char(w, Len(w)) \in {"\"", "'"} THEN Len(w) - 1 ELSE Len(w)),
          WhiteSpace)
\* What the first i lines of the file assign to the variable name.
RECURSIVE DotenvParse(_, _, _)
DotenvParse(file, name, i) ==
  IF i = 0 THEN Unset
  ELSE LET eq == IndexOf(file[i], {"="})
           rest == TrimStart(Sub(file[i], eq + 1, Len(file[i])), WhiteSpace)
           end == Find(rest, 1, {13, 8232, 8233})
       IN IF /\ eq <= Len(file[i])
             /\ Trim(Sub(file[i], 1, eq - 1), WhiteSpace) = name
             /\ Len(TrimStart(Sub(rest, end, Len(rest)), WhiteSpace)) = 0
            THEN EnvVal(DotenvValue(Sub(rest, 1, end - 1)))
            ELSE DotenvParse(file, name, i - 1)
\* The variable name after config(), e being what it was before.
DotenvConfig(file, name, e) ==
  IF e.set THEN e ELSE DotenvParse(file, name, Len(file))

\* line 29
SecretKeyOf(env) == EnvOr(env["SECRET_KEY"], "secret-dev")
\* line 33: +process.env.PORT || 3001 ; +undefined is NaN, and NaN and 0 are
\* falsy.
PortOfUnsetOnly(env) ==
  IF env["PORT"].set THEN ToNumber(env["PORT"].v) ELSE Integer(3001)
PortOf(env) ==
  LET n == IF env["PORT"].set THEN ToNumber(env["PORT"].v) ELSE NaN
  IN IF IsFalsy(n) THEN Integer(3001) ELSE n
\* line 48
BcryptWorkFactorOf(env) == IF env = EnvVal("test") THEN 1 ELSE 12

\* lines 39-43: reads process.env when it is called.
getDatabaseUriUrlFirst ==
  IF processEnv["DATABASE_URL"].set /\ processEnv["DATABASE_URL"].v # ""
    THEN processEnv["DATABASE_URL"].v
    ELSE IF nodeEnv = EnvVal("test") THEN "postgresql:///jobly_test"
         ELSE "postgresql:///jobly"
getDatabaseUri ==
  IF nodeEnv = EnvVal("test") THEN "postgresql:///jobly_test"
  ELSE EnvOr(processEnv["DATABASE_URL"], "postgresql:///jobly")

NotLoaded == [loaded |-> FALSE]
NoUri == [called |-> FALSE]
\* A call of getDatabaseUri, recorded with the environment it ran in.
UriCall ==
  [called |-> TRUE, value |-> getDatabaseUri, nodeEnv |-> nodeEnv,
   databaseUrl |-> processEnv["DATABASE_URL"]]

\* The application and the helper do not touch the configuration.
ConfigIdle ==
  /\ processEnv = [n \in {"SECRET_KEY", "PORT", "DATABASE_URL"} |-> Unset]
  /\ config = NotLoaded
  /\ dbUri = NoUri

EnvValues ==
  [n \in {"SECRET_KEY", "PORT", "DATABASE_URL"} |->
     CASE n = "SECRET_KEY" -> {"", "abc"}
       [] n = "PORT" -> {"", "0", "abc", "5000", "1e3", "1e-400", "\\u200380"}
       [] n = "DATABASE_URL" -> {"", "other"}]
ConfigNodeEnvs == {EnvVal("test"), EnvVal("other"), Unset}

ConfigInit ==
  /\ processEnv \in [{"SECRET_KEY", "PORT", "DATABASE_URL"} ->
                       {Unset} \cup { EnvVal(x) : x \in
                                        UNION { EnvValues[n] :
                                                  n \in DOMAIN EnvValues } }]
  /\ \A n \in DOMAIN processEnv :
       processEnv[n].set => processEnv[n].v \in EnvValues[n]
  /\ nodeEnv \in ConfigNodeEnvs
  /\ config = NotLoaded
  /\ dbUri = NoUri
  /\ companies = <<>> /\ jobs = <<>> /\ nextJobId = 1 /\ users = <<>>
  /\ applications = {} /\ served = 0 /\ calls = <<>>
  /\ req = NoRequest /\ resp = NoResponse
  /\ sqlData = <<>> /\ sqlMap = <<>> /\ sqlOut = NotCalled

ConfigRest ==
  UNCHANGED <<sqlData, sqlMap, sqlOut, companies, jobs, nextJobId, users,
              applications, served, calls, req, resp>>

\* process.env.X = value
ConfigSetEnv ==
  \E n \in DOMAIN processEnv : \E x \in EnvValues[n] :
    /\ processEnv' = [processEnv EXCEPT ![n] = EnvVal(x)]
    /\ UNCHANGED <<nodeEnv, config, dbUri>>
    /\ ConfigRest

\* delete process.env.X
ConfigDeleteEnv ==
  \E n \in DOMAIN processEnv :
    /\ processEnv[n].set
    /\ processEnv' = [processEnv EXCEPT ![n] = Unset]
    /\ UNCHANGED <<nodeEnv, config, dbUri>>
    /\ ConfigRest

\* process.env.NODE_ENV = value, and delete process.env.NODE_ENV
ConfigSetNodeEnv ==
  \E e \in ConfigNodeEnvs \ {nodeEnv} :
    /\ nodeEnv' = e
    /\ UNCHANGED <<processEnv, config, dbUri>>
    /\ ConfigRest

\* The files .env tried: none (or an empty one), and files that assign the
\* variables the module reads, with and without quotes, with white space
\* inside the quotes, with a quote that is not closed, and with a backslash
\* and n between double quotes.
EnvFiles ==
  { <<>>,
    <<"PORT=4000", "SECRET_KEY=\" from file \"">>,
    <<"DATABASE_URL='postgresql:///fromfile">>,
    <<"# local", "NODE_ENV=test", "PORT = \"0\"", "SECRET_KEY=\"a\\\\nb\"">> }

\* require("./config"): line 22 completes process.env from the file; the
\* constants are computed once, from what process.env holds then; line 56
\* calls getDatabaseUri for the log.
LoadConfig ==
  \E file \in EnvFiles :
    /\ config = NotLoaded
    /\ processEnv' = [n \in DOMAIN processEnv |->
                        DotenvConfig(file, n, processEnv[n])]
    /\ nodeEnv' = DotenvConfig(file, "NODE_ENV", nodeEnv)
    /\ config' = [loaded |-> TRUE,
                  SECRET_KEY |-> SecretKeyOf(processEnv'),
                  PORT |-> PortOf(processEnv'),
                  BCRYPT_WORK_FACTOR |-> BcryptWorkFactorOf(nodeEnv')]
    /\ dbUri' = UriCall'
    /\ ConfigRest

\* config.getDatabaseUri()
CallGetDatabaseUri ==
  /\ config # NotLoaded
  /\ dbUri' = UriCall
  /\ UNCHANGED <<nodeEnv, processEnv, config>>
  /\ ConfigRest

ConfigNext ==
  \/ ConfigSetEnv
  \/ ConfigDeleteEnv
  \/ ConfigSetNodeEnv
  \/ LoadConfig
  \/ CallGetDatabaseUri
ConfigSpec == ConfigInit /\ [][ConfigNext]_vars

(***************************************************************************)
(* The helper alone: every call sqlForPartialUpdate(dataToUpdate, jsToSql) *)
(* with at most MaxKeys keys.                                              *)
(***************************************************************************)
SqlKeys == {"firstName", "age", "constructor"}
SqlVals == {"John", "30"}
SqlCols == {"first_name", "age", ""}

Injective(seq) == \A i, j \in 1..Len(seq) : seq[i] = seq[j] => i = j
SqlObjects ==
  UNION { { obj \in [1..n -> [key : SqlKeys, val : SqlVals]] :
              Injective(ObjectKeys(obj)) } : n \in 0..MaxKeys }
SqlMaps == UNION { [ks -> SqlCols] : ks \in SUBSET SqlKeys }

SqlInit ==
  /\ sqlData \in SqlObjects
  /\ sqlMap \in SqlMaps
  /\ sqlOut = NotCalled
  /\ AppInit
  /\ ConfigIdle

SqlCall ==
  /\ sqlOut = NotCalled
  /\ sqlOut' = sqlForPartialUpdate(sqlData, sqlMap)
  /\ UNCHANGED <<sqlData, sqlMap>>
  /\ UNCHANGED appVars
  /\ UNCHANGED configVars

SqlNext == SqlCall
SqlSpec == SqlInit /\ [][SqlNext]_vars

(***************************************************************************)
(* The application: any sequence of at most MaxRequests requests.          *)
(***************************************************************************)
Init ==
  /\ AppInit
  /\ ConfigIdle
  /\ sqlData = <<>>
  /\ sqlMap = <<>>
  /\ sqlOut = NotCalled

Next ==
  \/ CompaniesPost
  \/ CompaniesList
  \/ CompaniesGet
  \/ CompaniesPatch
  \/ CompaniesDelete
  \/ JobsPost
  \/ JobsList
  \/ JobsGet
  \/ JobsPatch
  \/ JobsDelete
  \/ UsersPost
  \/ UsersList
  \/ UsersGet
  \/ UsersPatch
  \/ UsersDelete
  \/ UsersApply
  \/ AuthToken
  \/ AuthRegister
  \/ NoRoute
  \/ SetNodeEnv

Spec == Init /\ [][Next]_vars

(***************************************************************************)
(* Properties of sqlForPartialUpdate, checked under SqlSpec.               *)
(***************************************************************************)
\* C9: called with a dataToUpdate that has no keys, sqlForPartialUpdate
\* throws BadRequestError("No data") and returns no setCols and no values,
\* whatever jsToSql is.
C9_EmptyInputRejected ==
  (sqlOut # NotCalled /\ Len(sqlData) = 0)
    => /\ sqlOut.kind = "throw"
       /\ sqlOut.error = BadRequestError(Str("No data"))
       /\ DOMAIN sqlOut = {"kind", "error"}

\* The call was made with no data and with a jsToSql that maps some keys.
C9_Witness ==
  /\ sqlOut.kind = "throw"
  /\ Len(sqlData) = 0
  /\ DOMAIN sqlMap # {}

\* The i-th assignment and the whole SET clause a claim about the result
\* expects, given the column each key is to be written to.
Expected(col(_), n) ==
  LET part[i \in 0..n] ==
        IF i = 0 THEN ""
        ELSE part[i - 1] \o (IF i = 1 THEN "" ELSE ", ")
               \o "\"" \o col(sqlData[i].key) \o "\"=$" \o ToString(i)
  IN part[n]

MappedWhenPresent(k) == IF k \in DOMAIN sqlMap THEN sqlMap[k] ELSE k

\* C10: for n >= 1 keys the result has the n assignments "<col_i>"=$i joined
\* by ", ", with col_i = jsToSql[k_i] whenever jsToSql has a mapping for k_i
\* and k_i itself otherwise, and values holds the n values in key order.
C10_MappingWheneverPresent ==
  (sqlOut # NotCalled /\ Len(sqlData) >= 1)
    => /\ sqlOut.kind = "return"
       /\ sqlOut.setCols = Expected(MappedWhenPresent, Len(sqlData))
       /\ Len(sqlOut.values) = Len(sqlData)
       /\ \A i \in 1..Len(sqlData) : sqlOut.values[i] = sqlData[i].val

(***************************************************************************)
(* Properties of the application, checked under Spec.  A step of the       *)
(* application is the arrival of a request, the run of a suspended         *)
(* handler's query, or the resumption of a handler; a response is sent in  *)
(* the first (when the handler answers before its await) and in the last.  *)
(***************************************************************************)
\* The number of responses sent so far.
Answered == served - Len(calls)
AnswerStep == served' - Len(calls') = Answered + 1
\* The request arrives and is answered in the same step.
ArrivalAnswerStep == AnswerStep /\ served' = served + 1
\* The database runs the query of the suspended handler i.
QueryStep(i) ==
  /\ i \in DOMAIN calls
  /\ calls[i].phase = "called"
  /\ Len(calls') = Len(calls)
  /\ calls'[i].phase = "done"
\* The suspended handler i resumes and answers.
ResumeStep(i) ==
  /\ i \in DOMAIN calls
  /\ AnswerStep
  /\ served' = served
  /\ \A j \in DOMAIN calls' : calls'[j].n # calls[i].n
Ran(r, stage) == \E i \in 1..Len(r.stages) : r.stages[i] = stage
IsAdmin(user) == user.present /\ user.isAdmin

AdminRoutes ==
  {"POST /companies", "PATCH /companies/:handle", "DELETE /companies/:handle",
   "POST /jobs", "PATCH /jobs/:id", "DELETE /jobs/:id",
   "POST /users", "GET /users"}

\* C1: an admin-only route reaches its model call only for a requester whose
\* isAdmin is true: every handler of such a route that is suspended at its
\* model call, and every one that answered after it, serves an admin.  A
\* request with no user or a non-admin user is answered 403 by ensureAdmin
\* in the step it arrives in, the route's handler does not run, and
\* companies, jobs, users and applications stay as they were.
C1_State ==
  /\ req.route \in AdminRoutes
       => /\ resp.call # "none" => IsAdmin(req.user)
          /\ ~IsAdmin(req.user)
               => /\ resp.status = 403
                  /\ resp.call = "none"
                  /\ ~Ran(resp, "route")
                  /\ ~Ran(resp, "errorHandler")
  /\ \A i \in DOMAIN calls :
       calls[i].req.route \in AdminRoutes => IsAdmin(calls[i].req.user)
C1_Step ==
  (AnswerStep /\ req'.route \in AdminRoutes /\ ~IsAdmin(req'.user))
    => /\ ArrivalAnswerStep
       /\ UNCHANGED store
C1_AdminOnly == [](C1_State) /\ [][C1_Step]_vars

\* A signed-in user who is no admin asked to delete a company that exists,
\* was answered 403, and the company is still there.
C1_Witness ==
  /\ req.route = "DELETE /companies/:handle"
  /\ req.user.present /\ ~req.user.isAdmin
  /\ resp.status = 403
  /\ req.param \in DOMAIN companies

UserRoutes ==
  {"GET /users/:username", "PATCH /users/:username",
   "DELETE /users/:username", "POST /users/:username/jobs/:id"}
SelfOrAdmin(r) ==
  r.user.present /\ (r.user.isAdmin \/ r.user.username = r.param)
RowOf(table, key) ==
  IF key \in DOMAIN table THEN <<table[key]>> ELSE <<>>

\* C2: a route under /users/:username reaches its model call only for an
\* admin or for the user named in the path: every handler of such a route
\* that is suspended at its model call, and every one that answered after
\* it, serves such a requester.  Any other requester is answered in the step
\* the request arrives in, and the row of :username and the applications of
\* :username stay as they were.
C2_State ==
  /\ req.route \in UserRoutes => (resp.call # "none" => SelfOrAdmin(req))
  /\ \A i \in DOMAIN calls :
       calls[i].req.route \in UserRoutes => SelfOrAdmin(calls[i].req)
C2_Step ==
  (AnswerStep /\ req'.route \in UserRoutes /\ ~SelfOrAdmin(req'))
    => /\ ArrivalAnswerStep
       /\ RowOf(users', req'.param) = RowOf(users, req'.param)
       /\ { a \in applications' : a[1] = req'.param }
            = { a \in applications : a[1] = req'.param }
C2_SelfOrAdmin == [](C2_State) /\ [][C2_Step]_vars

\* u2, no admin, asked to delete u1, who exists and has applied to a job:
\* the request was refused and u1 and the application are still there.
C2_Witness ==
  /\ req.route = "DELETE /users/:username"
  /\ req.user = Payload("u2", FALSE)
  /\ req.param = "u1"
  /\ resp.status = 401
  /\ "u1" \in DOMAIN users
  /\ \E a \in applications : a[1] = "u1"

ValidatingRoutes ==
  {"POST /companies", "PATCH /companies/:handle", "GET /companies",
   "POST /jobs", "PATCH /jobs/:id", "GET /jobs",
   "POST /users", "PATCH /users/:username",
   "POST /auth/token", "POST /auth/register"}
SchemaOf(route) ==
  CASE route = "POST /companies" -> companyNewSchema
    [] route = "PATCH /companies/:handle" -> companyUpdateSchema
    [] route = "GET /companies" -> companySearchSchema
    [] route = "POST /jobs" -> jobNewSchema
    [] route = "PATCH /jobs/:id" -> jobUpdateSchema
    [] route = "GET /jobs" -> jobSearchSchema
    [] route = "POST /users" -> userNewSchema
    [] route = "PATCH /users/:username" -> userUpdateSchema
    [] route = "POST /auth/token" -> userAuthSchema
    [] route = "POST /auth/register" -> userRegisterSchema
\* What the route hands to the validator: the body, or the query after the
\* route's conversions.
ValidatedInput(r) ==
  CASE r.route = "GET /companies" ->
         CoerceNumber(CoerceNumber(r.body, "minEmployees"), "maxEmployees")
    [] r.route = "GET /jobs" -> CoerceHasEquity(CoerceNumber(r.body, "minSalary"))
    [] OTHER -> r.body
FailsValidation(r) ==
  /\ r.route \in ValidatingRoutes
  /\ Validate(ValidatedInput(r), SchemaOf(r.route)) # <<>>

\* C3: on every validating route, when the handler validates an input that
\* does not conform to the schema (the request passed the route's
\* authorization middleware, if any), the response is 400 from a
\* BadRequestError whose message is the list of the schema errors, and it is
\* sent in the step the request arrives in; no model function is called (no
\* handler suspended at a model call has such an input), and the store stays
\* as it was.
C3_State ==
  /\ (FailsValidation(req) /\ Ran(resp, "route"))
       => /\ resp.status = 400
          /\ resp.thrown.name = "BadRequestError"
          /\ resp.thrown.message.isList
          /\ resp.thrown.message.items
               = Validate(ValidatedInput(req), SchemaOf(req.route))
          /\ resp.body.type = "errorObject"
          /\ resp.body.error.message = resp.thrown.message
          /\ resp.call = "none"
  /\ \A i \in DOMAIN calls : ~FailsValidation(calls[i].req)
C3_Step ==
  (AnswerStep /\ FailsValidation(req') /\ Ran(resp', "route"))
    => /\ ArrivalAnswerStep
       /\ UNCHANGED store
C3_InvalidInputRejected == [](C3_State) /\ [][C3_Step]_vars

\* An admin sent PATCH /companies/c1 with the field handle, which the update
\* schema does not allow; c1 exists.
C3_Witness ==
  /\ req.route = "PATCH /companies/:handle"
  /\ IsAdmin(req.user)
  /\ req.param \in DOMAIN companies
  /\ Has(req.body, "handle")
  /\ resp.status = 400
  /\ Len(resp.body.error.message.items) = 1

ErrorStatuses == {400, 401, 403, 404, 500}

\* C4: every response with an error status is sent by the generic error
\* handler and has the body {error: {message, status}}; no middleware and
\* no route writes an error response itself.
C4_AllErrorsThroughHandler ==
  resp.status \in ErrorStatuses
    => /\ resp.sentBy = "errorHandler"
       /\ resp.body.type = "errorObject"

Uncaught(r) == r.sentBy = "errorHandler" /\ r.thrown.status = 0

\* C5 as stated: an error with no status of its own is answered 500 with a
\* generic message, one that does not depend on the error: two such
\* responses in a row carry the same message.
C5_Step ==
  (AnswerStep /\ Uncaught(resp) /\ Uncaught(resp'))
    => /\ resp'.status = 500
       /\ resp'.body.error.message = resp.body.error.message
C5_GenericMessage == [][C5_Step]_vars

\* C5, amended: an error with no status of its own is answered 500, with
\* status 500 in the body, and the message of the body is the message of the
\* error that was thrown.
C5_UncaughtIs500 ==
  Uncaught(resp)
    => /\ resp.status = 500
       /\ resp.body.type = "errorObject"
       /\ resp.body.error.status = 500
       /\ resp.body.error.message = resp.thrown.message

\* GET /jobs/abc: the database's error about the id reached the handler.
C5_Witness ==
  /\ Uncaught(resp)
  /\ req.route = "GET /jobs/:id"
  /\ req.param = "abc"
  /\ resp.thrown.message = InvalidInteger("abc").message

\* C6: a request no router answers is answered 404: the catch-all passes a
\* NotFoundError to the error handler, whatever NODE_ENV is; NODE_ENV only
\* decides whether the stack is logged.
C6_State ==
  req.route \in UnroutedRequests
    => /\ resp.status = 404
       /\ resp.thrown.name = "NotFoundError"
       /\ resp.stages = <<"authenticateJWT", "notFound", "errorHandler">>
       /\ resp.body.type = "errorObject"
       /\ resp.body.error.status = 404
C6_Step ==
  (AnswerStep /\ req'.route \in UnroutedRequests)
    => /\ ArrivalAnswerStep
       /\ resp'.stackLogged = (nodeEnv # EnvVal("test"))
C6_NoRouteIs404 == [](C6_State) /\ [][C6_Step]_vars

\* GET /no-such-path was answered 404 outside the test environment, with the
\* stack logged.
C6_Witness ==
  /\ req.route = "GET /no-such-path"
  /\ resp.status = 404
  /\ nodeEnv = EnvVal("")
  /\ resp.stackLogged

DeleteRoutes ==
  {"DELETE /companies/:handle", "DELETE /jobs/:id", "DELETE /users/:username"}
GetRoutes == {"GET /companies/:handle", "GET /jobs/:id", "GET /users/:username"}
JobRoutes == {"DELETE /jobs/:id", "GET /jobs/:id"}
\* The request names an id: for a job, a text the database reads as an
\* integer (the routes hand req.params.id to Job.get and Job.remove as it
\* is).
NamesAnId(r) == r.route \in JobRoutes => ~IntegerInput(r.param).nan
\* The id in { deleted: id }: the handle or the username as the request has
\* it, and for a job the number the parameter writes in decimal digits.
IdOf(r) ==
  IF r.route \in JobRoutes THEN Integer(IntegerInput(r.param).m) ELSE r.param
\* The resource a request names is in the given tables.
Stored(cs, js, us, r) ==
  CASE r.route \in {"DELETE /companies/:handle", "GET /companies/:handle"} ->
         r.param \in DOMAIN cs
    [] r.route \in JobRoutes ->
         ~IntegerInput(r.param).nan /\ IntegerInput(r.param).m \in DOMAIN js
    [] OTHER -> r.param \in DOMAIN us

\* C7: the handlers of the DELETE and GET routes that reach their model call
\* belong to authorized requests (C1, C2).  When the database runs the
\* remove of a DELETE whose company, job or user exists, the remove succeeds
\* and the resource is gone; when it runs the remove of one that is gone,
\* the remove fails with 404 and the resource stays gone.  The handler
\* answers 200 {deleted: id} after a remove that succeeded and 404, never
\* {deleted: id}, after one that failed so.  One that is gone stays gone
\* until a create puts it back (never, for a job), and a GET of one that is
\* gone is answered 404.
C7_Delete ==
  \A i \in DOMAIN calls :
    LET r == calls[i].req IN
    /\ (QueryStep(i) /\ r.route \in DeleteRoutes /\ NamesAnId(r))
         => /\ calls'[i].m.ok = Stored(companies, jobs, users, r)
            /\ ~calls'[i].m.ok => calls'[i].m.error.status = 404
            /\ ~Stored(companies', jobs', users', r)
    /\ (ResumeStep(i) /\ r.route \in DeleteRoutes /\ NamesAnId(r))
         => /\ req' = r
            /\ IF calls[i].m.ok
                 THEN /\ resp'.status = 200
                      /\ resp'.body.type = "deleted"
                      /\ resp'.body.deleted = IdOf(r)
                 ELSE /\ resp'.status = 404
                      /\ resp'.body.type # "deleted"
C7_StaysGone ==
  /\ \A h \in DOMAIN companies' \ DOMAIN companies :
       \E i \in DOMAIN calls :
         QueryStep(i) /\ calls[i].req.route = "POST /companies"
  /\ \A u \in DOMAIN users' \ DOMAIN users :
       \E i \in DOMAIN calls :
         /\ QueryStep(i)
         /\ calls[i].req.route \in {"POST /users", "POST /auth/register"}
  /\ \A j \in DOMAIN jobs' \ DOMAIN jobs : j >= nextJobId
C7_Get ==
  \A i \in DOMAIN calls :
    LET r == calls[i].req IN
    /\ (QueryStep(i) /\ r.route \in GetRoutes /\ NamesAnId(r)
          /\ ~Stored(companies, jobs, users, r))
         => /\ ~calls'[i].m.ok
            /\ calls'[i].m.error.status = 404
    /\ (ResumeStep(i) /\ r.route \in GetRoutes /\ ~calls[i].m.ok
          /\ calls[i].m.error.status = 404)
         => /\ req' = r
            /\ resp'.status = 404
C7_Authorized ==
  \A i \in DOMAIN calls :
    /\ calls[i].req.route \in {"DELETE /companies/:handle", "DELETE /jobs/:id"}
         => IsAdmin(calls[i].req.user)
    /\ calls[i].req.route \in {"DELETE /users/:username", "GET /users/:username"}
         => SelfOrAdmin(calls[i].req)
C7_DeleteOnce ==
  [](C7_Authorized) /\ [][C7_Delete /\ C7_StaysGone /\ C7_Get]_vars

\* The second DELETE of company c1, which the first one removed: 404, after
\* the first was answered.
C7_Witness ==
  /\ served = 2
  /\ calls = <<>>
  /\ req.route = "DELETE /companies/:handle"
  /\ req.param = "c1"
  /\ IsAdmin(req.user)
  /\ "c1" \notin DOMAIN companies
  /\ resp.status = 404

CreatingRoutes ==
  {"POST /companies", "POST /jobs", "POST /users", "POST /auth/register"}

\* C8: a successful POST /companies, POST /jobs or POST /users answers 201
\* with the entity the model returned for the create (the user together with
\* a token for that user), which is the row the create stored; POST
\* /auth/register answers 201 with a token for the user the model returned;
\* and every other successful operation answers 200.
C8_State ==
  resp.sentBy = "route"
    => /\ resp.status = IF req.route \in CreatingRoutes THEN 201 ELSE 200
       /\ req.route = "POST /companies" => resp.body.type = "company"
       /\ req.route = "POST /jobs" => resp.body.type = "job"
       /\ req.route = "POST /users"
            => /\ resp.body.type = "user+token"
               /\ resp.body.token = createToken(resp.body.user)
       /\ req.route = "POST /auth/register" => resp.body.type = "token"
C8_Query ==
  \A i \in DOMAIN calls :
    LET r == calls[i].req
        m == calls'[i].m
    IN (QueryStep(i) /\ r.route \in CreatingRoutes /\ m.ok)
         => CASE r.route = "POST /companies" ->
                   /\ m.value.handle = Get(r.body, "handle").v
                   /\ m.value.handle \notin DOMAIN companies
                   /\ companies'[m.value.handle] = m.value
              [] r.route = "POST /jobs" ->
                   /\ m.value.id \notin DOMAIN jobs
                   /\ jobs'[m.value.id] = m.value
              [] OTHER ->
                   /\ m.value.username = Get(r.body, "username").v
                   /\ m.value.username \notin DOMAIN users
                   /\ Public(users'[m.value.username]) = m.value
C8_Resume ==
  \A i \in DOMAIN calls :
    LET r == calls[i].req
        m == calls[i].m
    IN (ResumeStep(i) /\ r.route \in CreatingRoutes /\ m.ok)
         => /\ req' = r
            /\ resp'.status = 201
            /\ CASE r.route = "POST /companies" -> resp'.body.company = m.value
                 [] r.route = "POST /jobs" -> resp'.body.job = m.value
                 [] r.route = "POST /users" -> resp'.body.user = m.value
                 [] OTHER -> resp'.body.token = createToken(m.value)
C8_CreateReturnsEntity == [](C8_State) /\ [][C8_Query /\ C8_Resume]_vars

\* An admin created user u2: 201 with the user and a token for u2.
C8_Witness ==
  /\ req.route = "POST /users"
  /\ resp.status = 201
  /\ resp.body.type = "user+token"
  /\ resp.body.user.username = "u2"
  /\ resp.body.token.username = "u2"

(***************************************************************************)
(* Properties of config.js, checked under ConfigSpec.                      *)
(***************************************************************************)
\* C11: every call of getDatabaseUri answers from the environment as it is
\* at the call: "postgresql:///jobly_test" when NODE_ENV is "test", whatever
\* DATABASE_URL is; otherwise DATABASE_URL when it is set and not empty;
\* otherwise "postgresql:///jobly".
C11_UriFromCurrentEnv ==
  dbUri.called
    => dbUri.value =
         IF dbUri.nodeEnv = EnvVal("test") THEN "postgresql:///jobly_test"
         ELSE IF dbUri.databaseUrl.set /\ dbUri.databaseUrl.v # ""
           THEN dbUri.databaseUrl.v
         ELSE "postgresql:///jobly"

\* The module was loaded outside the test environment; NODE_ENV was set to
\* "test" afterwards, with DATABASE_URL set, and a call answered with the
\* test database.
C11_Witness ==
  /\ config.loaded
  /\ config.BCRYPT_WORK_FACTOR = 12
  /\ dbUri.called
  /\ dbUri.nodeEnv = EnvVal("test")
  /\ dbUri.databaseUrl = EnvVal("other")
  /\ dbUri.value = "postgresql:///jobly_test"

\* The number JavaScript reads in each value of PORT tried, as decimal,
\* exponent and white space are read there, with 3001 in the place of 0 and
\* of what is no number.
PortNumber ==
  [t \in {"", "0", "abc", "5000", "1e3", "1e-400", "\\u200380", "4000"} |->
     CASE t = "5000" -> 5000 [] t = "1e3" -> 1000 [] t = "\\u200380" -> 80
       [] t = "4000" -> 4000 [] OTHER -> 3001]

\* C12: loading the module fixes SECRET_KEY (the variable, or "secret-dev"
\* when it is unset or empty), PORT (the number the variable holds, or 3001
\* when it is unset, no number or 0) and BCRYPT_WORK_FACTOR (1 when NODE_ENV
\* is "test", 12 otherwise) from the environment of that moment, which is
\* process.env as the module's first statement leaves it: a variable that
\* was set keeps its value there.  No later change of the environment
\* changes the exports.
C12_Load ==
  (~config.loaded /\ config'.loaded)
    => /\ config'.SECRET_KEY =
            IF processEnv'["SECRET_KEY"] \in {Unset, EnvVal("")}
              THEN "secret-dev" ELSE processEnv'["SECRET_KEY"].v
       /\ config'.PORT =
            IF processEnv'["PORT"].set
              THEN Integer(PortNumber[processEnv'["PORT"].v])
              ELSE Integer(3001)
       /\ config'.BCRYPT_WORK_FACTOR =
            IF nodeEnv' = EnvVal("test") THEN 1 ELSE 12
       /\ \A n \in DOMAIN processEnv :
            processEnv[n].set => processEnv'[n] = processEnv[n]
       /\ nodeEnv.set => nodeEnv' = nodeEnv
C12_Fixed == config.loaded => config' = config
C12_ConfigFixedAtLoad == [][C12_Load /\ C12_Fixed]_vars

\* Loaded with PORT "0" and no SECRET_KEY in the test environment; both
\* variables and NODE_ENV were set afterwards and the exports kept their
\* values.
C12_Witness ==
  /\ config.loaded
  /\ config.PORT = Integer(3001)
  /\ config.SECRET_KEY = "secret-dev"
  /\ config.BCRYPT_WORK_FACTOR = 1
  /\ processEnv["PORT"] = EnvVal("1e3")
  /\ processEnv["SECRET_KEY"] = EnvVal("abc")
  /\ nodeEnv = EnvVal("other")

(***************************************************************************)
(* Registration and administrators, checked under Spec.                    *)
(***************************************************************************)
\* C13: whenever POST /auth/register calls User.register, for a body with
\* isAdmin true as for any other, the data it passes has isAdmin false, and
\* so has the user the call returns; and in every step after which some
\* account is an administrator that was not one before, the database runs
\* the User.register of a POST /users that passed ensureAdmin.
C13_Call ==
  /\ (req.route = "POST /auth/register" /\ resp.call = "User.register")
       => /\ Get(resp.arg, "isAdmin") = J("boolean", "false")
          /\ resp.status = 201 => ~resp.body.token.isAdmin
  /\ \A i \in DOMAIN calls :
       calls[i].req.route = "POST /auth/register"
         => /\ calls[i].call = "User.register"
            /\ Get(calls[i].arg, "isAdmin") = J("boolean", "false")
            /\ (calls[i].phase = "done" /\ calls[i].m.ok)
                 => ~calls[i].m.value.isAdmin
C13_Step ==
  \A u \in DOMAIN users' :
    (users'[u].isAdmin /\ (u \in DOMAIN users => ~users[u].isAdmin))
      => \E i \in DOMAIN calls :
           /\ QueryStep(i)
           /\ calls[i].req.route = "POST /users"
           /\ calls[i].call = "User.register"
           /\ IsAdmin(calls[i].req.user)
C13_NoSelfMadeAdmin == [](C13_Call) /\ [][C13_Step]_vars

\* A body carrying isAdmin: true was accepted by POST /auth/register and the
\* account it created is no administrator.
C13_Witness ==
  /\ req.route = "POST /auth/register"
  /\ Get(req.body, "isAdmin") = J("boolean", "true")
  /\ resp.status = 201
  /\ resp.call = "User.register"
  /\ "u2" \in DOMAIN users
  /\ ~users["u2"].isAdmin
  /\ ~resp.body.token.isAdmin

(***************************************************************************)
(* The generic error handler, checked under Spec.                          *)
(***************************************************************************)
\* C14: when an error reached the generic error handler, the status of the
\* response is the status of the error if it has one that is not 0, and 500
\* otherwise; the status in the error object of the body is the status of
\* the response; and every request is answered exactly once: a step sends
\* at most one response, to the request that arrives in it or to one whose
\* handler was suspended, which is suspended no more.
C14_State ==
  /\ resp.sentBy = "errorHandler"
       => /\ resp.status = IF resp.thrown.status # 0 THEN resp.thrown.status
                           ELSE 500
          /\ resp.body.type = "errorObject"
          /\ resp.body.error.status = resp.status
  /\ Answered > 0 => resp.sends = 1
  /\ Answered >= 0
C14_Step ==
  \/ /\ served' - Len(calls') = Answered
     /\ UNCHANGED <<req, resp>>
  \/ /\ ArrivalAnswerStep
     /\ calls' = calls
     /\ resp'.sends = 1
  \/ /\ \E i \in DOMAIN calls : ResumeStep(i) /\ req' = calls[i].req
     /\ Len(calls') = Len(calls) - 1
     /\ resp'.sends = 1
C14_HandlerStatus == [](C14_State) /\ [][C14_Step]_vars

\* POST /jobs for a company that does not exist: the database's error has no
\* status and was answered 500, once, with 500 in the body.
C14_Witness ==
  /\ req.route = "POST /jobs"
  /\ resp.sentBy = "errorHandler"
  /\ resp.thrown.status = 0
  /\ resp.status = 500
  /\ resp.body.error.status = 500
  /\ resp.sends = 1

(***************************************************************************)
(* The query filters of the two list routes, checked under Spec.           *)
(***************************************************************************)
KeysOf(obj) == [i \in 1..Len(obj) |-> obj[i].key]
\* The number JavaScript's unary plus makes of each filter text tried, as
\* JavaScript prints it.
PlusText ==
  [t \in {"\\u20031.0", "3", "0x2", "abc", "1.5", "1e0", "0.5"} |->
     CASE t = "\\u20031.0" -> "1" [] t = "0x2" -> "2" [] t = "abc" -> "NaN"
       [] t = "1e0" -> "1" [] OTHER -> t]
\* The filter k of the query was handed on as the number unary plus makes of
\* it, or was absent and stayed absent.
NumberOrAbsent(query, handed, k) ==
  IF Has(query, k)
    THEN /\ Has(handed, k)
         /\ Get(handed, k) = J("number", PlusText[Get(query, k).v])
    ELSE ~Has(handed, k)
JobFiltersCoerced(query, handed) ==
  /\ Has(handed, "hasEquity")
  /\ Get(handed, "hasEquity")
       = J("boolean",
           IF Has(query, "hasEquity")
                /\ Get(query, "hasEquity") = J("string", "true")
             THEN "true" ELSE "false")
  /\ NumberOrAbsent(query, handed, "minSalary")
  /\ \A i \in 1..Len(query) :
       query[i].key \notin {"hasEquity", "minSalary"} => handed[i] = query[i]
CompanyFiltersCoerced(query, handed) ==
  /\ NumberOrAbsent(query, handed, "minEmployees")
  /\ NumberOrAbsent(query, handed, "maxEmployees")
  /\ KeysOf(handed) = KeysOf(query)

\* C15: GET /jobs hands on, to the validator and then to Job.findAll, a
\* query whose hasEquity is a boolean: true when the request's value is the
\* string "true", false for any other value and when the request has none;
\* no response rejects hasEquity; minSalary is a number when the request has
\* it and absent when not.  GET /companies does the same with minEmployees
\* and maxEmployees and adds no key.  This holds of the handlers suspended
\* at findAll and of those that have answered.
C15_Jobs ==
  /\ req.route = "GET /jobs"
       => /\ JobFiltersCoerced(req.body, resp.arg)
          /\ resp.sentBy = "errorHandler"
               => \A i \in 1..Len(resp.thrown.message.items) :
                    resp.thrown.message.items[i]
                      # "instance.hasEquity is not of a type(s) boolean"
          /\ resp.status = 200 => resp.call = "Job.findAll"
  /\ \A i \in DOMAIN calls :
       calls[i].req.route = "GET /jobs"
         => /\ calls[i].call = "Job.findAll"
            /\ JobFiltersCoerced(calls[i].req.body, calls[i].arg)
C15_Companies ==
  /\ req.route = "GET /companies"
       => /\ CompanyFiltersCoerced(req.body, resp.arg)
          /\ resp.status = 200 => resp.call = "Company.findAll"
  /\ \A i \in DOMAIN calls :
       calls[i].req.route = "GET /companies"
         => /\ calls[i].call = "Company.findAll"
            /\ CompanyFiltersCoerced(calls[i].req.body, calls[i].arg)
C15_FiltersCoerced == C15_Jobs /\ C15_Companies

\* GET /jobs?hasEquity=yes was answered 200 and Job.findAll received
\* hasEquity false.
C15_Witness ==
  /\ req.route = "GET /jobs"
  /\ Get(req.body, "hasEquity") = J("string", "yes")
  /\ resp.status = 200
  /\ resp.call = "Job.findAll"
  /\ Get(resp.arg, "hasEquity") = J("boolean", "false")

====
